---------------------------- MODULE Spec2Model ----------------------------
(***************************************************************************)
(* Two-party encrypted collision check between two satellite trajectories. *)
(*                                                                         *)
(* The model follows tests/satelite_collision_test.rs (the exchange, which *)
(* both tests of that file run statement for statement, on different       *)
(* trajectory data), src/common.rs (the serialization adapter) and         *)
(* tests/less_than_test.rs (one encrypted comparison).  Its specifications: *)
(*   Spec           the exchange;                                          *)
(*   FairSpec       the exchange as the runtime runs it, to its end;       *)
(*   FaultSpec      the exchange with library calls that may fail;         *)
(*   PermutedSpec   the exchange on trajectories in any index order;       *)
(*   EvaluatorSpec  the evaluation loop alone, on vectors of any length;   *)
(*   AdapterSpec    one use of the serialization adapter;                  *)
(*   LessThanSpec   the comparison test.                                   *)
(* The homomorphic encryption library (tfhe) and bincode are external:     *)
(* their operations are modelled by their contracts, as ideal functions    *)
(* over tagged records, with the outcomes the library leaves unspecified   *)
(* (evaluation or decryption under a key that does not match) left open.   *)
(*                                                                         *)
(* The tests fix sat1 and sat2 and end each direction with an assert! on    *)
(* collision_found that states the outcome expected of that data (lines    *)
(* 120, 215, 336, 433).  Here sat2 ranges over a set of trajectories, so    *)
(* the asserts are not steps of the exchange: they are stated, for the     *)
(* data they are about, in C1_ExactOverlap and C2_NoOverlap.               *)
(*                                                                         *)
(* An unwrap() on an Err and an index past the end of a vector end the run *)
(* at pc = "panicked", a `?` on an Err at pc = "returned_err".             *)
(*                                                                         *)
(* Rust indices start at 0, the sequences here at 1: index i of the code   *)
(* is position i + 1 of the model.                                         *)
(***************************************************************************)
EXTENDS Integers, Sequences, FiniteSets, TLC

VARIABLES
    \* ---- the exchange (tests/satelite_collision_test.rs) ----
    pc,                             \* the statement about to execute
    i,                              \* index of the running for loop
    config,                         \* encoded sizes under the scheme parameters
    sat1, sat2,                     \* the two plaintext trajectories
    keys_generated,                 \* number of key pairs generated so far
    active_server_key,              \* tfhe's process-wide server key slot
    client_key_a, server_key_a,
    enc_sat1, ser_enc_sat1, ser_server_key_a,
    dec_enc_sat1, server_key_a_for_b,
    collision_ciphertexts_from_b, ser_collision_from_b,
    collision_ciphertexts_for_a, is_collision_a, collision_found_a,
    client_key_b, server_key_b,
    enc_sat2, ser_enc_sat2, ser_server_key_b,
    dec_enc_sat2, server_key_b_for_a,
    collision_ciphertexts_from_a, ser_collision_from_a,
    collision_ciphertexts_for_b, is_collision_b, collision_found_b,
    eval_log,                       \* history: one entry per evaluated index
    decrypt_log,                    \* history: one entry per decryption
    \* ---- one use of the serialization adapter (src/common.rs) ----
    ser_pc, ser_item, ser_buf, ser_data, ser_expect, ser_out,
    \* ---- the comparison (tests/less_than_test.rs) ----
    lt_pc,                          \* the statement about to execute
    clear_a, clear_b,
    client_key, server_keys,
    encrypted_a, encrypted_b,
    serialized_a, serialized_b,
    deserialized_a, deserialized_b,
    encrypted_is_greater, is_greater

exchange_vars ==
    << pc, i, config, sat1, sat2, keys_generated, active_server_key,
       client_key_a, server_key_a, enc_sat1, ser_enc_sat1, ser_server_key_a,
       dec_enc_sat1, server_key_a_for_b, collision_ciphertexts_from_b,
       ser_collision_from_b, collision_ciphertexts_for_a, is_collision_a,
       collision_found_a, client_key_b, server_key_b, enc_sat2, ser_enc_sat2,
       ser_server_key_b, dec_enc_sat2, server_key_b_for_a,
       collision_ciphertexts_from_a, ser_collision_from_a,
       collision_ciphertexts_for_b, is_collision_b, collision_found_b,
       eval_log, decrypt_log >>

adapter_vars == << ser_pc, ser_item, ser_buf, ser_data, ser_expect, ser_out >>

less_than_vars ==
    << lt_pc, clear_a, clear_b, client_key, server_keys, encrypted_a,
       encrypted_b, serialized_a, serialized_b, deserialized_a,
       deserialized_b, encrypted_is_greater, is_greater >>

vars == << exchange_vars, adapter_vars, less_than_vars >>

---------------------------------------------------------------------------
(* Bounds of the model.                                                    *)

\* sat2's coordinates differ from sat1's, where they differ, by 1..MaxDelta.
MaxDelta == 2
\* Encoded sizes tried by the adapter runs: the limit plus or minus SizeMargin.
SizeMargin == 1
\* Key pair identities and plaintext values tried by the adapter runs.
MaxAdapterKey == 2
MaxAdapterVal == 1
\* The comparison is tried on the values up to MaxClearDelta below and above
\* the two of the test.
MaxClearDelta == 2
\* The vectors of ciphertexts given to the evaluation loop are up to
\* MaxLengthDiff shorter or longer than the plaintext trajectory.
MaxLengthDiff == 1

(* Constants of the program.                                               *)

\* pub x: [u32; 3] (and y, z): every trajectory has three time indices.
TrajLen == 3
\* safe_serialize(item, &mut buf, 1 << 20)
SerializeLimit == 1048576
\* safe_deserialize(cursor, 1 << 20)
DeserializeLimit == 1048576

---------------------------------------------------------------------------
(* Values.                                                                 *)

None == [kind |-> "None"]

Ok(v) == [ok |-> TRUE, value |-> v]
Err(e) == [ok |-> FALSE, err |-> e]

Axes == {"x", "y", "z"}
NoTriple == [x |-> << >>, y |-> << >>, z |-> << >>]

Range(s) == {s[j] : j \in DOMAIN s}
Bit(b) == IF b THEN 1 ELSE 0
AllOk(rs) == \A j \in DOMAIN rs : rs[j].ok
Values(rs) == [j \in DOMAIN rs |-> rs[j].value]

\* tfhe::ClientKey: the private half of key pair id (encrypts and decrypts).
ClientKey(id, bytes) == [kind |-> "ClientKey", id |-> id, bytes |-> bytes]
\* tfhe::ServerKey: the public half of key pair id (evaluates).
ServerKey(id, bytes) == [kind |-> "ServerKey", id |-> id, bytes |-> bytes]
\* tfhe::FheUint32: val encrypted under the private half of key pair `key`.
FheUint32(key, val, bytes) ==
    [kind |-> "FheUint32", key |-> key, val |-> val, bytes |-> bytes]
\* tfhe::FheBool: the bit val (0 or 1) encrypted under key pair `key`.
FheBool(key, val, bytes) ==
    [kind |-> "FheBool", key |-> key, val |-> val, bytes |-> bytes]

---------------------------------------------------------------------------
(* The homomorphic encryption library, by its contract.                    *)

\* generate_keys(config): a fresh pair, independent of every earlier one.
generate_keys(n) ==
    << ClientKey(n + 1, config.key_bytes), ServerKey(n + 1, config.key_bytes) >>

\* FheUint32::try_encrypt(v, &client_key): every u32 is in range.
try_encrypt(v, key) ==
    Ok(FheUint32(key.id, v, config.u32_bytes))

\* ct.eq(clear) under the active server key: the encrypted comparison when
\* the key is the public half of ct's pair, an unspecified bit otherwise.
FheEq(ct, clear, server_key) ==
    IF server_key.kind = "ServerKey" /\ server_key.id = ct.key
    THEN {FheBool(ct.key, Bit(ct.val = clear), config.bool_bytes)}
    ELSE {FheBool(ct.key, b, config.bool_bytes) : b \in {0, 1}}

\* a & b under the active server key.
FheAnd(a, b, server_key) ==
    IF server_key.kind = "ServerKey" /\ server_key.id = a.key /\ a.key = b.key
    THEN {FheBool(a.key, a.val * b.val, config.bool_bytes)}
    ELSE {FheBool(a.key, v, config.bool_bytes) : v \in {0, 1}}

\* ciph_bool.decrypt(&client_key): the plaintext under the matching private
\* key, an unspecified boolean under any other.
FheDecrypt(ciph_bool, key) ==
    IF key.kind = "ClientKey" /\ key.id = ciph_bool.key
    THEN {ciph_bool.val = 1}
    ELSE BOOLEAN

---------------------------------------------------------------------------
(* Encodings.  An object is laid out as a tag for its type followed by its *)
(* fields; decoding is directed by the destination type.                   *)

KindCode(kind) ==
    CASE kind = "FheUint32" -> 1
      [] kind = "FheBool" -> 2
      [] kind = "ServerKey" -> 3
      [] kind = "ClientKey" -> 4
      [] OTHER -> 0

Encode(obj) ==
    CASE obj.kind \in {"FheUint32", "FheBool"} ->
             << KindCode(obj.kind), obj.key, obj.val >>
      [] obj.kind \in {"ServerKey", "ClientKey"} ->
             << KindCode(obj.kind), obj.id >>
      [] OTHER -> << 0, obj.val >>

Decodable(T, data) ==
    /\ Len(data) = (IF T \in {"FheUint32", "FheBool"} THEN 3 ELSE 2)
    /\ data[1] = KindCode(T)
    /\ T = "FheBool" => data[3] \in {0, 1}

Decode(T, data, bytes) ==
    IF T \in {"FheUint32", "FheBool"}
    THEN [kind |-> T, key |-> data[2], val |-> data[3], bytes |-> bytes]
    ELSE [kind |-> T, id |-> data[2], bytes |-> bytes]

\* The version the library writes into a header, and the only one it reads.
CurrentVersion == 1

\* tfhe::safe_serialization::safe_serialize(item, writer, limit): a header
\* (version, type name) and the item, refused when larger than limit.
safe_serialize(item, limit) ==
    IF item.bytes > limit
    THEN Err("SizeLimit")
    ELSE Ok([format |-> "tfhe_safe", version |-> CurrentVersion,
             name |-> item.kind, data |-> Encode(item), bytes |-> item.bytes])

\* tfhe::safe_serialization::safe_deserialize::<T>(reader, limit).
safe_deserialize(blob, T, limit) ==
    IF blob.format # "tfhe_safe" THEN Err("Header")
    ELSE IF blob.version # CurrentVersion THEN Err("Version")
    ELSE IF blob.name # T THEN Err("TypeName")
    ELSE IF blob.bytes > limit THEN Err("SizeLimit")
    ELSE IF ~Decodable(T, blob.data) THEN Err("Io")
    ELSE Ok(Decode(T, blob.data, blob.bytes))

\* bincode::serialize(&obj): no header, no size limit.
bincode_serialize(obj) ==
    Ok([format |-> "bincode", version |-> 0, name |-> "",
        data |-> Encode(obj), bytes |-> obj.bytes])

\* bincode::deserialize::<T>(&bytes).
bincode_deserialize(blob, T) ==
    IF blob.format # "bincode" \/ ~Decodable(T, blob.data)
    THEN Err("Io")
    ELSE Ok(Decode(T, blob.data, blob.bytes))

---------------------------------------------------------------------------
(* src/common.rs: the serialization adapter.                               *)

\* A slip the adapter could make: a limit of 1 << 21.
safe_serialize_item_wide(item) ==
    LET r == safe_serialize(item, 2 * SerializeLimit)
    IN  IF r.ok THEN Ok(r.value) ELSE Err(r.err)

safe_serialize_item(item) ==
    LET r == safe_serialize(item, SerializeLimit)
    IN  IF r.ok THEN Ok(r.value) ELSE Err(r.err)

\* A slip the adapter could make: a limit of 1 << 19.
safe_deserialize_item_narrow(data, T) ==
    LET r == safe_deserialize(data, T, DeserializeLimit \div 2)
    IN  IF r.ok THEN Ok(r.value) ELSE Err(r.err)

\* A slip the adapter could make: a limit of 1 << 21.
safe_deserialize_item_wide(data, T) ==
    LET r == safe_deserialize(data, T, 2 * DeserializeLimit)
    IN  IF r.ok THEN Ok(r.value) ELSE Err(r.err)

safe_deserialize_item(data, T) ==
    LET r == safe_deserialize(data, T, DeserializeLimit)
    IN  IF r.ok THEN Ok(r.value) ELSE Err(r.err)

---------------------------------------------------------------------------
(* Groups of variables, for the UNCHANGED clauses.                         *)

inputs == << config, sat1, sat2 >>
keys_a == << client_key_a, server_key_a >>
sent_by_a == << enc_sat1, ser_enc_sat1, ser_server_key_a >>
received_by_b == << dec_enc_sat1, server_key_a_for_b >>
evaluated_by_b == << collision_ciphertexts_from_b, ser_collision_from_b >>
results_of_a == << collision_ciphertexts_for_a, is_collision_a, collision_found_a >>
keys_b == << client_key_b, server_key_b >>
sent_by_b == << enc_sat2, ser_enc_sat2, ser_server_key_b >>
received_by_a == << dec_enc_sat2, server_key_b_for_a >>
evaluated_by_a == << collision_ciphertexts_from_a, ser_collision_from_a >>
results_of_b == << collision_ciphertexts_for_b, is_collision_b, collision_found_b >>
logs == << eval_log, decrypt_log >>

---------------------------------------------------------------------------
(* tests/satelite_collision_test.rs, party A probing party B: A encrypts   *)
(* sat1, B compares the ciphertexts with its plaintext sat2, A decrypts.  *)

\* let (client_key_a, server_key_a) = generate_keys(config);
PartyA_Keygen ==
    /\ pc = "generate_keys_a"
    /\ client_key_a' = generate_keys(keys_generated)[1]
    /\ server_key_a' = generate_keys(keys_generated)[2]
    /\ keys_generated' = keys_generated + 1
    /\ pc' = "enc_sat1_x"
    /\ UNCHANGED << i, active_server_key, inputs, sent_by_a, received_by_b,
                    evaluated_by_b, results_of_a, keys_b, sent_by_b,
                    received_by_a, evaluated_by_a, results_of_b, logs,
                    adapter_vars, less_than_vars >>

\* The key of FheUint32::try_encrypt(v, &client_key_a).
EncryptKeyA == client_key_a

\* let enc_sat1_<axis> = sat1.<axis>.iter().map(try_encrypt .. unwrap()).collect();
PartyA_Encrypt(axis, here, next) ==
    /\ pc = here
    /\ LET rs == [j \in DOMAIN sat1[axis] |->
                     try_encrypt(sat1[axis][j], EncryptKeyA)]
       IN  IF AllOk(rs)
           THEN /\ enc_sat1' = [enc_sat1 EXCEPT ![axis] = Values(rs)]
                /\ pc' = next
           ELSE /\ pc' = "panicked"
                /\ UNCHANGED enc_sat1
    /\ UNCHANGED << i, keys_generated, active_server_key, inputs, keys_a,
                    ser_enc_sat1, ser_server_key_a, received_by_b,
                    evaluated_by_b, results_of_a, keys_b, sent_by_b,
                    received_by_a, evaluated_by_a, results_of_b, logs,
                    adapter_vars, less_than_vars >>

\* A slip: bincode, as tests/less_than_test.rs serializes its ciphertexts.
SerializeCoordinateA_bincode(ct) == bincode_serialize(ct)

\* safe_serialize_item(ct) of a coordinate ciphertext of A.
SerializeCoordinateA(ct) == safe_serialize_item(ct)

\* let ser_enc_sat1_<axis> = enc_sat1_<axis>.iter().map(safe_serialize_item .. unwrap()).collect();
PartyA_Serialize(axis, here, next) ==
    /\ pc = here
    /\ LET rs == [j \in DOMAIN enc_sat1[axis] |->
                     SerializeCoordinateA(enc_sat1[axis][j])]
       IN  IF AllOk(rs)
           THEN /\ ser_enc_sat1' = [ser_enc_sat1 EXCEPT ![axis] = Values(rs)]
                /\ pc' = next
           ELSE /\ pc' = "panicked"
                /\ UNCHANGED ser_enc_sat1
    /\ UNCHANGED << i, keys_generated, active_server_key, inputs, keys_a,
                    enc_sat1, ser_server_key_a, received_by_b,
                    evaluated_by_b, results_of_a, keys_b, sent_by_b,
                    received_by_a, evaluated_by_a, results_of_b, logs,
                    adapter_vars, less_than_vars >>

\* A slip: handing over the private half of the pair.
KeySentByA_private == client_key_a

\* The key of bincode::serialize(&server_key_a).
KeySentByA == server_key_a

\* let ser_server_key_a = bincode::serialize(&server_key_a)?;
PartyA_SerializeKey ==
    /\ pc = "ser_server_key_a"
    /\ LET r == bincode_serialize(KeySentByA)
       IN  IF r.ok
           THEN /\ ser_server_key_a' = r.value
                /\ pc' = "dec_enc_sat1_x"
           ELSE /\ pc' = "returned_err"
                /\ UNCHANGED ser_server_key_a
    /\ UNCHANGED << i, keys_generated, active_server_key, inputs, keys_a,
                    enc_sat1, ser_enc_sat1, received_by_b, evaluated_by_b,
                    results_of_a, keys_b, sent_by_b, received_by_a,
                    evaluated_by_a, results_of_b, logs, adapter_vars, less_than_vars >>

\* let dec_enc_sat1_<axis>: Vec<FheUint32> = ser_enc_sat1_<axis>.iter().map(safe_deserialize_item .. unwrap()).collect();
PartyB_Deserialize(axis, here, next) ==
    /\ pc = here
    /\ LET rs == [j \in DOMAIN ser_enc_sat1[axis] |->
                     safe_deserialize_item(ser_enc_sat1[axis][j], "FheUint32")]
       IN  IF AllOk(rs)
           THEN /\ dec_enc_sat1' = [dec_enc_sat1 EXCEPT ![axis] = Values(rs)]
                /\ pc' = next
           ELSE /\ pc' = "panicked"
                /\ UNCHANGED dec_enc_sat1
    /\ UNCHANGED << i, keys_generated, active_server_key, inputs, keys_a,
                    sent_by_a, server_key_a_for_b, evaluated_by_b,
                    results_of_a, keys_b, sent_by_b, received_by_a,
                    evaluated_by_a, results_of_b, logs, adapter_vars, less_than_vars >>

\* let server_key_a_for_b: ServerKey = bincode::deserialize(&ser_server_key_a)?;
PartyB_DeserializeKey ==
    /\ pc = "server_key_a_for_b"
    /\ LET r == bincode_deserialize(ser_server_key_a, "ServerKey")
       IN  IF r.ok
           THEN /\ server_key_a_for_b' = r.value
                /\ pc' = "set_server_key_a"
           ELSE /\ pc' = "returned_err"
                /\ UNCHANGED server_key_a_for_b
    /\ UNCHANGED << i, keys_generated, active_server_key, inputs, keys_a,
                    sent_by_a, dec_enc_sat1, evaluated_by_b, results_of_a,
                    keys_b, sent_by_b, received_by_a, evaluated_by_a,
                    results_of_b, logs, adapter_vars, less_than_vars >>

\* A slip: no set_server_key here, the slot keeps what it held.
KeyActivatedByB_stale == active_server_key

\* The key of set_server_key(server_key_a_for_b).
KeyActivatedByB == server_key_a_for_b

\* set_server_key(server_key_a_for_b);
PartyB_SetServerKey ==
    /\ pc = "set_server_key_a"
    /\ active_server_key' = KeyActivatedByB
    /\ pc' = "collision_from_b"
    /\ UNCHANGED << i, keys_generated, inputs, keys_a, sent_by_a,
                    received_by_b, evaluated_by_b, results_of_a, keys_b,
                    sent_by_b, received_by_a, evaluated_by_a, results_of_b,
                    logs, adapter_vars, less_than_vars >>

\* A slip: a loop that stops one index early.
EvalCountB_short == Len(sat2.x) - 1

\* for i in 0..sat2.x.len()
EvalCountB == Len(sat2.x)

\* A slip: eq_z left out of the conjunction.
CollisionFromB_xy(k) ==
    UNION { FheAnd(eq_x, eq_y, active_server_key) :
            << eq_x, eq_y >> \in
                FheEq(dec_enc_sat1.x[k], sat2.x[k], active_server_key)
                \X FheEq(dec_enc_sat1.y[k], sat2.y[k], active_server_key) }

\* A slip: the x axis compared at the first index, whatever the index is.
CollisionFromB_first(k) ==
    UNION { UNION { FheAnd(xy, eq_z, active_server_key) :
                    xy \in FheAnd(eq_x, eq_y, active_server_key) } :
            << eq_x, eq_y, eq_z >> \in
                FheEq(dec_enc_sat1.x[1], sat2.x[1], active_server_key)
                \X FheEq(dec_enc_sat1.y[k], sat2.y[k], active_server_key)
                \X FheEq(dec_enc_sat1.z[k], sat2.z[k], active_server_key) }

\* eq_x = dec_enc_sat1_x[i].eq(sat2.x[i]), eq_y, eq_z likewise;
\* collision = eq_x & eq_y & eq_z, that is (eq_x & eq_y) & eq_z.
CollisionFromB(k) ==
    UNION { UNION { FheAnd(xy, eq_z, active_server_key) :
                    xy \in FheAnd(eq_x, eq_y, active_server_key) } :
            << eq_x, eq_y, eq_z >> \in
                FheEq(dec_enc_sat1.x[k], sat2.x[k], active_server_key)
                \X FheEq(dec_enc_sat1.y[k], sat2.y[k], active_server_key)
                \X FheEq(dec_enc_sat1.z[k], sat2.z[k], active_server_key) }

\* for i in 0..sat2.x.len() { .. collision_ciphertexts_from_b.push(collision); }
\* Indexing past the end of a vector panics, and so does a homomorphic
\* operation while no server key is set.
PartyB_Evaluate ==
    /\ pc = "collision_from_b"
    /\ IF i > EvalCountB
       THEN /\ pc' = "ser_collision_from_b"
            /\ i' = 1
            /\ UNCHANGED << collision_ciphertexts_from_b, eval_log >>
       ELSE IF \/ \E axis \in Axes : i > Len(dec_enc_sat1[axis])
               \/ \E axis \in Axes : i > Len(sat2[axis])
               \/ active_server_key.kind # "ServerKey"
       THEN /\ pc' = "panicked"
            /\ UNCHANGED << i, collision_ciphertexts_from_b, eval_log >>
       ELSE /\ \E collision \in CollisionFromB(i) :
                   collision_ciphertexts_from_b' =
                       Append(collision_ciphertexts_from_b, collision)
            /\ eval_log' = Append(eval_log,
                   [party |-> "B", index |-> i, active |-> active_server_key,
                    ct_keys |-> {dec_enc_sat1[axis][i].key : axis \in Axes}])
            /\ i' = i + 1
            /\ pc' = pc
    /\ UNCHANGED << keys_generated, active_server_key, inputs, keys_a,
                    sent_by_a, received_by_b, ser_collision_from_b,
                    results_of_a, keys_b, sent_by_b, received_by_a,
                    evaluated_by_a, results_of_b, decrypt_log, adapter_vars, less_than_vars >>

\* let ser_collision_from_b = collision_ciphertexts_from_b.iter().map(safe_serialize_item .. unwrap()).collect();
PartyB_SerializeCollision ==
    /\ pc = "ser_collision_from_b"
    /\ LET rs == [j \in DOMAIN collision_ciphertexts_from_b |->
                     safe_serialize_item(collision_ciphertexts_from_b[j])]
       IN  IF AllOk(rs)
           THEN /\ ser_collision_from_b' = Values(rs)
                /\ pc' = "collision_ciphertexts_for_a"
           ELSE /\ pc' = "panicked"
                /\ UNCHANGED ser_collision_from_b
    /\ UNCHANGED << i, keys_generated, active_server_key, inputs, keys_a,
                    sent_by_a, received_by_b, collision_ciphertexts_from_b,
                    results_of_a, keys_b, sent_by_b, received_by_a,
                    evaluated_by_a, results_of_b, logs, adapter_vars, less_than_vars >>

\* let collision_ciphertexts_for_a: Vec<FheBool> = ser_collision_from_b.iter().map(safe_deserialize_item .. unwrap()).collect();
PartyA_DeserializeCollision ==
    /\ pc = "collision_ciphertexts_for_a"
    /\ LET rs == [j \in DOMAIN ser_collision_from_b |->
                     safe_deserialize_item(ser_collision_from_b[j], "FheBool")]
       IN  IF AllOk(rs)
           THEN /\ collision_ciphertexts_for_a' = Values(rs)
                /\ pc' = "decrypt_a"
           ELSE /\ pc' = "panicked"
                /\ UNCHANGED collision_ciphertexts_for_a
    /\ UNCHANGED << i, keys_generated, active_server_key, inputs, keys_a,
                    sent_by_a, received_by_b, evaluated_by_b, is_collision_a,
                    collision_found_a, keys_b, sent_by_b, received_by_a,
                    evaluated_by_a, results_of_b, logs, adapter_vars, less_than_vars >>

\* A slip: the other party's private key.
DecryptKeyA_other == client_key_b

\* The key of ciph_bool.decrypt(&client_key_a).
DecryptKeyA == client_key_a

\* for ciph_bool in collision_ciphertexts_for_a.iter() {
\*     let is_collision: bool = ciph_bool.decrypt(&client_key_a);
\*     if is_collision { collision_found = true; } }
\* is_collision_a keeps the value of is_collision of every iteration.
PartyA_Decrypt ==
    /\ pc = "decrypt_a"
    /\ IF i > Len(collision_ciphertexts_for_a)
       THEN /\ pc' = "generate_keys_b"
            /\ i' = 1
            /\ UNCHANGED << is_collision_a, collision_found_a, decrypt_log >>
       ELSE /\ \E is_collision \in
                   FheDecrypt(collision_ciphertexts_for_a[i], DecryptKeyA) :
                   /\ is_collision_a' = Append(is_collision_a, is_collision)
                   /\ collision_found_a' = (collision_found_a \/ is_collision)
            /\ decrypt_log' = Append(decrypt_log,
                   [party |-> "A", index |-> i,
                    ct_key |-> collision_ciphertexts_for_a[i].key,
                    key |-> DecryptKeyA])
            /\ i' = i + 1
            /\ pc' = pc
    /\ UNCHANGED << keys_generated, active_server_key, inputs, keys_a,
                    sent_by_a, received_by_b, evaluated_by_b,
                    collision_ciphertexts_for_a, keys_b, sent_by_b,
                    received_by_a, evaluated_by_a, results_of_b, eval_log,
                    adapter_vars, less_than_vars >>


---------------------------------------------------------------------------
(* tests/satelite_collision_test.rs, party B probing party A: B encrypts   *)
(* sat2, A compares the ciphertexts with its plaintext sat1, B decrypts.  *)

\* A slip: key generation that also installs the new server key in the slot.
PartyB_Keygen_activating ==
    /\ pc = "generate_keys_b"
    /\ client_key_b' = generate_keys(keys_generated)[1]
    /\ server_key_b' = generate_keys(keys_generated)[2]
    /\ keys_generated' = keys_generated + 1
    /\ active_server_key' = generate_keys(keys_generated)[2]
    /\ pc' = "enc_sat2_x"
    /\ UNCHANGED << i, inputs, keys_a, sent_by_a,
                    received_by_b, evaluated_by_b, results_of_a, sent_by_b,
                    received_by_a, evaluated_by_a, results_of_b, logs,
                    adapter_vars, less_than_vars >>

\* let (client_key_b, server_key_b) = generate_keys(config);
PartyB_Keygen ==
    /\ pc = "generate_keys_b"
    /\ client_key_b' = generate_keys(keys_generated)[1]
    /\ server_key_b' = generate_keys(keys_generated)[2]
    /\ keys_generated' = keys_generated + 1
    /\ pc' = "enc_sat2_x"
    /\ UNCHANGED << i, active_server_key, inputs, keys_a, sent_by_a,
                    received_by_b, evaluated_by_b, results_of_a, sent_by_b,
                    received_by_a, evaluated_by_a, results_of_b, logs,
                    adapter_vars, less_than_vars >>

\* A slip: B encrypting under the key of the first direction.
EncryptKeyB_other == client_key_a

\* The key of FheUint32::try_encrypt(v, &client_key_b).
EncryptKeyB == client_key_b

\* let enc_sat2_<axis> = sat2.<axis>.iter().map(try_encrypt .. unwrap()).collect();
PartyB_Encrypt(axis, here, next) ==
    /\ pc = here
    /\ LET rs == [j \in DOMAIN sat2[axis] |->
                     try_encrypt(sat2[axis][j], EncryptKeyB)]
       IN  IF AllOk(rs)
           THEN /\ enc_sat2' = [enc_sat2 EXCEPT ![axis] = Values(rs)]
                /\ pc' = next
           ELSE /\ pc' = "panicked"
                /\ UNCHANGED enc_sat2
    /\ UNCHANGED << i, keys_generated, active_server_key, inputs, keys_a,
                    sent_by_a, received_by_b, evaluated_by_b, results_of_a,
                    keys_b, ser_enc_sat2, ser_server_key_b, received_by_a,
                    evaluated_by_a, results_of_b, logs, adapter_vars, less_than_vars >>

\* A slip: bincode, as tests/less_than_test.rs serializes its ciphertexts.
SerializeCoordinateB_bincode(ct) == bincode_serialize(ct)

\* safe_serialize_item(ct) of a coordinate ciphertext of B.
SerializeCoordinateB(ct) == safe_serialize_item(ct)

\* let ser_enc_sat2_<axis> = enc_sat2_<axis>.iter().map(safe_serialize_item .. unwrap()).collect();
PartyB_Serialize(axis, here, next) ==
    /\ pc = here
    /\ LET rs == [j \in DOMAIN enc_sat2[axis] |->
                     SerializeCoordinateB(enc_sat2[axis][j])]
       IN  IF AllOk(rs)
           THEN /\ ser_enc_sat2' = [ser_enc_sat2 EXCEPT ![axis] = Values(rs)]
                /\ pc' = next
           ELSE /\ pc' = "panicked"
                /\ UNCHANGED ser_enc_sat2
    /\ UNCHANGED << i, keys_generated, active_server_key, inputs, keys_a,
                    sent_by_a, received_by_b, evaluated_by_b, results_of_a,
                    keys_b, enc_sat2, ser_server_key_b, received_by_a,
                    evaluated_by_a, results_of_b, logs, adapter_vars, less_than_vars >>

\* A slip: handing over the private half of the pair.
KeySentByB_private == client_key_b

\* The key of bincode::serialize(&server_key_b).
KeySentByB == server_key_b

\* let ser_server_key_b = bincode::serialize(&server_key_b)?;
PartyB_SerializeKey ==
    /\ pc = "ser_server_key_b"
    /\ LET r == bincode_serialize(KeySentByB)
       IN  IF r.ok
           THEN /\ ser_server_key_b' = r.value
                /\ pc' = "dec_enc_sat2_x"
           ELSE /\ pc' = "returned_err"
                /\ UNCHANGED ser_server_key_b
    /\ UNCHANGED << i, keys_generated, active_server_key, inputs, keys_a,
                    sent_by_a, received_by_b, evaluated_by_b, results_of_a,
                    keys_b, enc_sat2, ser_enc_sat2, received_by_a,
                    evaluated_by_a, results_of_b, logs, adapter_vars, less_than_vars >>

\* let dec_enc_sat2_<axis>: Vec<FheUint32> = ser_enc_sat2_<axis>.iter().map(safe_deserialize_item .. unwrap()).collect();
PartyA_Deserialize(axis, here, next) ==
    /\ pc = here
    /\ LET rs == [j \in DOMAIN ser_enc_sat2[axis] |->
                     safe_deserialize_item(ser_enc_sat2[axis][j], "FheUint32")]
       IN  IF AllOk(rs)
           THEN /\ dec_enc_sat2' = [dec_enc_sat2 EXCEPT ![axis] = Values(rs)]
                /\ pc' = next
           ELSE /\ pc' = "panicked"
                /\ UNCHANGED dec_enc_sat2
    /\ UNCHANGED << i, keys_generated, active_server_key, inputs, keys_a,
                    sent_by_a, received_by_b, evaluated_by_b, results_of_a,
                    keys_b, sent_by_b, server_key_b_for_a, evaluated_by_a,
                    results_of_b, logs, adapter_vars, less_than_vars >>

\* let server_key_b_for_a: ServerKey = bincode::deserialize(&ser_server_key_b)?;
PartyA_DeserializeKey ==
    /\ pc = "server_key_b_for_a"
    /\ LET r == bincode_deserialize(ser_server_key_b, "ServerKey")
       IN  IF r.ok
           THEN /\ server_key_b_for_a' = r.value
                /\ pc' = "set_server_key_b"
           ELSE /\ pc' = "returned_err"
                /\ UNCHANGED server_key_b_for_a
    /\ UNCHANGED << i, keys_generated, active_server_key, inputs, keys_a,
                    sent_by_a, received_by_b, evaluated_by_b, results_of_a,
                    keys_b, sent_by_b, dec_enc_sat2, evaluated_by_a,
                    results_of_b, logs, adapter_vars, less_than_vars >>

\* A slip: no set_server_key here, the slot keeps what it held.
KeyActivatedByA_stale == active_server_key

\* The key of set_server_key(server_key_b_for_a).
KeyActivatedByA == server_key_b_for_a

\* set_server_key(server_key_b_for_a);
PartyA_SetServerKey ==
    /\ pc = "set_server_key_b"
    /\ active_server_key' = KeyActivatedByA
    /\ pc' = "collision_from_a"
    /\ UNCHANGED << i, keys_generated, inputs, keys_a, sent_by_a,
                    received_by_b, evaluated_by_b, results_of_a, keys_b,
                    sent_by_b, received_by_a, evaluated_by_a, results_of_b,
                    logs, adapter_vars, less_than_vars >>

\* A slip: a loop that stops one index early.
EvalCountA_short == Len(sat1.x) - 1

\* for i in 0..sat1.x.len()
EvalCountA == Len(sat1.x)

\* A slip: the loop of the first direction copied with its plaintext, so
\* that B's ciphertexts are compared with sat2, the trajectory they encrypt.
CollisionFromA_sat2(k) ==
    UNION { UNION { FheAnd(xy, eq_z, active_server_key) :
                    xy \in FheAnd(eq_x, eq_y, active_server_key) } :
            << eq_x, eq_y, eq_z >> \in
                FheEq(dec_enc_sat2.x[k], sat2.x[k], active_server_key)
                \X FheEq(dec_enc_sat2.y[k], sat2.y[k], active_server_key)
                \X FheEq(dec_enc_sat2.z[k], sat2.z[k], active_server_key) }

\* A slip: eq_z left out of the conjunction.
CollisionFromA_xy(k) ==
    UNION { FheAnd(eq_x, eq_y, active_server_key) :
            << eq_x, eq_y >> \in
                FheEq(dec_enc_sat2.x[k], sat1.x[k], active_server_key)
                \X FheEq(dec_enc_sat2.y[k], sat1.y[k], active_server_key) }

\* A slip: the x axis compared at the first index, whatever the index is.
CollisionFromA_first(k) ==
    UNION { UNION { FheAnd(xy, eq_z, active_server_key) :
                    xy \in FheAnd(eq_x, eq_y, active_server_key) } :
            << eq_x, eq_y, eq_z >> \in
                FheEq(dec_enc_sat2.x[1], sat1.x[1], active_server_key)
                \X FheEq(dec_enc_sat2.y[k], sat1.y[k], active_server_key)
                \X FheEq(dec_enc_sat2.z[k], sat1.z[k], active_server_key) }

\* eq_x = dec_enc_sat2_x[i].eq(sat1.x[i]), eq_y, eq_z likewise;
\* collision = eq_x & eq_y & eq_z, that is (eq_x & eq_y) & eq_z.
CollisionFromA(k) ==
    UNION { UNION { FheAnd(xy, eq_z, active_server_key) :
                    xy \in FheAnd(eq_x, eq_y, active_server_key) } :
            << eq_x, eq_y, eq_z >> \in
                FheEq(dec_enc_sat2.x[k], sat1.x[k], active_server_key)
                \X FheEq(dec_enc_sat2.y[k], sat1.y[k], active_server_key)
                \X FheEq(dec_enc_sat2.z[k], sat1.z[k], active_server_key) }

\* for i in 0..sat1.x.len() { .. collision_ciphertexts_from_a.push(collision); }
\* Indexing past the end of a vector panics, and so does a homomorphic
\* operation while no server key is set.
PartyA_Evaluate ==
    /\ pc = "collision_from_a"
    /\ IF i > EvalCountA
       THEN /\ pc' = "ser_collision_from_a"
            /\ i' = 1
            /\ UNCHANGED << collision_ciphertexts_from_a, eval_log >>
       ELSE IF \/ \E axis \in Axes : i > Len(dec_enc_sat2[axis])
               \/ \E axis \in Axes : i > Len(sat1[axis])
               \/ active_server_key.kind # "ServerKey"
       THEN /\ pc' = "panicked"
            /\ UNCHANGED << i, collision_ciphertexts_from_a, eval_log >>
       ELSE /\ \E collision \in CollisionFromA(i) :
                   collision_ciphertexts_from_a' =
                       Append(collision_ciphertexts_from_a, collision)
            /\ eval_log' = Append(eval_log,
                   [party |-> "A", index |-> i, active |-> active_server_key,
                    ct_keys |-> {dec_enc_sat2[axis][i].key : axis \in Axes}])
            /\ i' = i + 1
            /\ pc' = pc
    /\ UNCHANGED << keys_generated, active_server_key, inputs, keys_a,
                    sent_by_a, received_by_b, evaluated_by_b, results_of_a,
                    keys_b, sent_by_b, received_by_a, ser_collision_from_a,
                    results_of_b, decrypt_log, adapter_vars, less_than_vars >>

\* let ser_collision_from_a = collision_ciphertexts_from_a.iter().map(safe_serialize_item .. unwrap()).collect();
PartyA_SerializeCollision ==
    /\ pc = "ser_collision_from_a"
    /\ LET rs == [j \in DOMAIN collision_ciphertexts_from_a |->
                     safe_serialize_item(collision_ciphertexts_from_a[j])]
       IN  IF AllOk(rs)
           THEN /\ ser_collision_from_a' = Values(rs)
                /\ pc' = "collision_ciphertexts_for_b"
           ELSE /\ pc' = "panicked"
                /\ UNCHANGED ser_collision_from_a
    /\ UNCHANGED << i, keys_generated, active_server_key, inputs, keys_a,
                    sent_by_a, received_by_b, evaluated_by_b, results_of_a,
                    keys_b, sent_by_b, received_by_a,
                    collision_ciphertexts_from_a, results_of_b, logs,
                    adapter_vars, less_than_vars >>

\* let collision_ciphertexts_for_b: Vec<FheBool> = ser_collision_from_a.iter().map(safe_deserialize_item .. unwrap()).collect();
PartyB_DeserializeCollision ==
    /\ pc = "collision_ciphertexts_for_b"
    /\ LET rs == [j \in DOMAIN ser_collision_from_a |->
                     safe_deserialize_item(ser_collision_from_a[j], "FheBool")]
       IN  IF AllOk(rs)
           THEN /\ collision_ciphertexts_for_b' = Values(rs)
                /\ pc' = "decrypt_b"
           ELSE /\ pc' = "panicked"
                /\ UNCHANGED collision_ciphertexts_for_b
    /\ UNCHANGED << i, keys_generated, active_server_key, inputs, keys_a,
                    sent_by_a, received_by_b, evaluated_by_b, results_of_a,
                    keys_b, sent_by_b, received_by_a, evaluated_by_a,
                    is_collision_b, collision_found_b, logs, adapter_vars, less_than_vars >>

\* A slip: the other party's private key.
DecryptKeyB_other == client_key_a

\* The key of ciph_bool.decrypt(&client_key_b).
DecryptKeyB == client_key_b

\* for ciph_bool in collision_ciphertexts_for_b.iter() {
\*     let is_collision: bool = ciph_bool.decrypt(&client_key_b);
\*     if is_collision { collision_found = true; } }
\* is_collision_b keeps the value of is_collision of every iteration.
PartyB_Decrypt ==
    /\ pc = "decrypt_b"
    /\ IF i > Len(collision_ciphertexts_for_b)
       THEN /\ pc' = "done"
            /\ i' = 1
            /\ UNCHANGED << is_collision_b, collision_found_b, decrypt_log >>
       ELSE /\ \E is_collision \in
                   FheDecrypt(collision_ciphertexts_for_b[i], DecryptKeyB) :
                   /\ is_collision_b' = Append(is_collision_b, is_collision)
                   /\ collision_found_b' = (collision_found_b \/ is_collision)
            /\ decrypt_log' = Append(decrypt_log,
                   [party |-> "B", index |-> i,
                    ct_key |-> collision_ciphertexts_for_b[i].key,
                    key |-> DecryptKeyB])
            /\ i' = i + 1
            /\ pc' = pc
    /\ UNCHANGED << keys_generated, active_server_key, inputs, keys_a,
                    sent_by_a, received_by_b, evaluated_by_b, results_of_a,
                    keys_b, sent_by_b, received_by_a, evaluated_by_a,
                    collision_ciphertexts_for_b, eval_log, adapter_vars, less_than_vars >>


---------------------------------------------------------------------------
(* The inputs of a run.                                                    *)

\* sat1 of both tests.
Sat1Reference ==
    [x |-> << 100, 101, 102 >>, y |-> << 200, 201, 202 >>, z |-> << 300, 301, 302 >>]

\* sat2: at every axis and index either sat1's coordinate or that coordinate
\* plus d, for one d in 1..MaxDelta (with d = 1, sat1's coordinate at the
\* next index).  Every pattern of matching axes occurs at every index.
Sat2Choices ==
    { [x |-> [j \in 1..TrajLen |-> Sat1Reference.x[j] + m.x[j] * d],
       y |-> [j \in 1..TrajLen |-> Sat1Reference.y[j] + m.y[j] * d],
       z |-> [j \in 1..TrajLen |-> Sat1Reference.z[j] + m.z[j] * d]] :
      m \in [x : [1..TrajLen -> {0, 1}],
             y : [1..TrajLen -> {0, 1}],
             z : [1..TrajLen -> {0, 1}]],
      d \in 1..MaxDelta }

\* The encoded sizes ConfigBuilder::default().build() leads to are the
\* library's: a ciphertext may or may not fit the adapter's limit.
CiphertextSizes == {SerializeLimit, SerializeLimit + 1}
Configs ==
    [u32_bytes : CiphertextSizes, bool_bytes : CiphertextSizes,
     key_bytes : CiphertextSizes]

AdapterIdle ==
    /\ ser_pc = "idle"
    /\ ser_item = None
    /\ ser_buf = None
    /\ ser_data = None
    /\ ser_expect = "None"
    /\ ser_out = None

LessThanIdle ==
    /\ lt_pc = "idle"
    /\ clear_a = 0
    /\ clear_b = 0
    /\ client_key = None
    /\ server_keys = None
    /\ encrypted_a = None
    /\ encrypted_b = None
    /\ serialized_a = None
    /\ serialized_b = None
    /\ deserialized_a = None
    /\ deserialized_b = None
    /\ encrypted_is_greater = None
    /\ is_greater = FALSE

ExchangeStart ==
    /\ i = 1
    /\ keys_generated = 0
    /\ active_server_key = None
    /\ client_key_a = None
    /\ server_key_a = None
    /\ enc_sat1 = NoTriple
    /\ ser_enc_sat1 = NoTriple
    /\ ser_server_key_a = None
    /\ dec_enc_sat1 = NoTriple
    /\ server_key_a_for_b = None
    /\ collision_ciphertexts_from_b = << >>
    /\ ser_collision_from_b = << >>
    /\ collision_ciphertexts_for_a = << >>
    /\ is_collision_a = << >>
    /\ collision_found_a = FALSE
    /\ client_key_b = None
    /\ server_key_b = None
    /\ enc_sat2 = NoTriple
    /\ ser_enc_sat2 = NoTriple
    /\ ser_server_key_b = None
    /\ dec_enc_sat2 = NoTriple
    /\ server_key_b_for_a = None
    /\ collision_ciphertexts_from_a = << >>
    /\ ser_collision_from_a = << >>
    /\ collision_ciphertexts_for_b = << >>
    /\ is_collision_b = << >>
    /\ collision_found_b = FALSE
    /\ eval_log = << >>
    /\ decrypt_log = << >>

Init ==
    /\ pc = "generate_keys_a"
    /\ config \in Configs
    /\ sat1 = Sat1Reference
    /\ sat2 \in Sat2Choices
    /\ ExchangeStart
    /\ AdapterIdle
    /\ LessThanIdle

Next ==
    \/ PartyA_Keygen
    \/ PartyA_Encrypt("x", "enc_sat1_x", "enc_sat1_y")
    \/ PartyA_Encrypt("y", "enc_sat1_y", "enc_sat1_z")
    \/ PartyA_Encrypt("z", "enc_sat1_z", "ser_enc_sat1_x")
    \/ PartyA_Serialize("x", "ser_enc_sat1_x", "ser_enc_sat1_y")
    \/ PartyA_Serialize("y", "ser_enc_sat1_y", "ser_enc_sat1_z")
    \/ PartyA_Serialize("z", "ser_enc_sat1_z", "ser_server_key_a")
    \/ PartyA_SerializeKey
    \/ PartyB_Deserialize("x", "dec_enc_sat1_x", "dec_enc_sat1_y")
    \/ PartyB_Deserialize("y", "dec_enc_sat1_y", "dec_enc_sat1_z")
    \/ PartyB_Deserialize("z", "dec_enc_sat1_z", "server_key_a_for_b")
    \/ PartyB_DeserializeKey
    \/ PartyB_SetServerKey
    \/ PartyB_Evaluate
    \/ PartyB_SerializeCollision
    \/ PartyA_DeserializeCollision
    \/ PartyA_Decrypt
    \/ PartyB_Keygen
    \/ PartyB_Encrypt("x", "enc_sat2_x", "enc_sat2_y")
    \/ PartyB_Encrypt("y", "enc_sat2_y", "enc_sat2_z")
    \/ PartyB_Encrypt("z", "enc_sat2_z", "ser_enc_sat2_x")
    \/ PartyB_Serialize("x", "ser_enc_sat2_x", "ser_enc_sat2_y")
    \/ PartyB_Serialize("y", "ser_enc_sat2_y", "ser_enc_sat2_z")
    \/ PartyB_Serialize("z", "ser_enc_sat2_z", "ser_server_key_b")
    \/ PartyB_SerializeKey
    \/ PartyA_Deserialize("x", "dec_enc_sat2_x", "dec_enc_sat2_y")
    \/ PartyA_Deserialize("y", "dec_enc_sat2_y", "dec_enc_sat2_z")
    \/ PartyA_Deserialize("z", "dec_enc_sat2_z", "server_key_b_for_a")
    \/ PartyA_DeserializeKey
    \/ PartyA_SetServerKey
    \/ PartyA_Evaluate
    \/ PartyA_SerializeCollision
    \/ PartyB_DeserializeCollision
    \/ PartyB_Decrypt

Spec == Init /\ [][Next]_vars

---------------------------------------------------------------------------
(* The statements of the exchange in program order, and the run of the     *)
(* test as the runtime executes it: a single task that runs one statement  *)
(* after the other, so a statement that can execute does.                  *)

Statements ==
    << "generate_keys_a", "enc_sat1_x", "enc_sat1_y", "enc_sat1_z",
       "ser_enc_sat1_x", "ser_enc_sat1_y", "ser_enc_sat1_z", "ser_server_key_a",
       "dec_enc_sat1_x", "dec_enc_sat1_y", "dec_enc_sat1_z", "server_key_a_for_b",
       "set_server_key_a", "collision_from_b", "ser_collision_from_b",
       "collision_ciphertexts_for_a", "decrypt_a",
       "generate_keys_b", "enc_sat2_x", "enc_sat2_y", "enc_sat2_z",
       "ser_enc_sat2_x", "ser_enc_sat2_y", "ser_enc_sat2_z", "ser_server_key_b",
       "dec_enc_sat2_x", "dec_enc_sat2_y", "dec_enc_sat2_z", "server_key_b_for_a",
       "set_server_key_b", "collision_from_a", "ser_collision_from_a",
       "collision_ciphertexts_for_b", "decrypt_b", "done" >>

\* The position of statement l in the program.
Position(l) == CHOOSE k \in DOMAIN Statements : Statements[k] = l

\* The ways a run ends before Ok(()): a panic, or an Err returned by `?`.
Failed == {"panicked", "returned_err"}

FairSpec == Spec /\ WF_vars(Next)

---------------------------------------------------------------------------
(* The exchange with the failures its library calls can report.  By their  *)
(* types try_encrypt, safe_serialize_item, safe_deserialize_item,          *)
(* bincode::serialize and bincode::deserialize return a Result, and        *)
(* generate_keys and the indexed eq can panic; the test unwraps the first  *)
(* three and applies `?` to the bincode calls.  Which inputs make a call   *)
(* fail is the library's matter: here any of these calls may.              *)

\* Everything of the exchange but the position in the program.
exchange_data ==
    << i, keys_generated, active_server_key, inputs, keys_a, sent_by_a,
       received_by_b, evaluated_by_b, results_of_a, keys_b, sent_by_b,
       received_by_a, evaluated_by_a, results_of_b, logs >>

\* The statements that end in .unwrap().
UnwrapStatements ==
    {"enc_sat1_x", "enc_sat1_y", "enc_sat1_z",
     "ser_enc_sat1_x", "ser_enc_sat1_y", "ser_enc_sat1_z",
     "dec_enc_sat1_x", "dec_enc_sat1_y", "dec_enc_sat1_z",
     "ser_collision_from_b", "collision_ciphertexts_for_a",
     "enc_sat2_x", "enc_sat2_y", "enc_sat2_z",
     "ser_enc_sat2_x", "ser_enc_sat2_y", "ser_enc_sat2_z",
     "dec_enc_sat2_x", "dec_enc_sat2_y", "dec_enc_sat2_z",
     "ser_collision_from_a", "collision_ciphertexts_for_b"}

\* The statements that end in `?`.
QuestionStatements ==
    {"ser_server_key_a", "server_key_a_for_b",
     "ser_server_key_b", "server_key_b_for_a"}

\* The statements whose call can panic by itself: key generation, and the
\* indexed comparisons of the evaluation loop.
PanicStatements ==
    {"generate_keys_a", "generate_keys_b", "collision_from_b", "collision_from_a"}

\* A slip: .unwrap_or_default() or .ok(), which go on to the next statement.
AfterUnwrapErr_swallowed(l) == Statements[Position(l) + 1]

\* Where .unwrap() on an Err leaves the run.
AfterUnwrapErr(l) == "panicked"

\* Where `?` on an Err leaves the run.
AfterQuestionErr(l) == "returned_err"

\* A call under .unwrap() returns an Err.
Fault_Unwrap ==
    /\ pc \in UnwrapStatements
    /\ pc' = AfterUnwrapErr(pc)
    /\ UNCHANGED << exchange_data, adapter_vars, less_than_vars >>

\* A call under `?` returns an Err.
Fault_Question ==
    /\ pc \in QuestionStatements
    /\ pc' = AfterQuestionErr(pc)
    /\ UNCHANGED << exchange_data, adapter_vars, less_than_vars >>

\* generate_keys panics, or an iteration of an evaluation loop does.
Fault_Panic ==
    /\ pc \in PanicStatements
    /\ pc \in {"collision_from_b", "collision_from_a"} => i <= TrajLen
    /\ pc' = "panicked"
    /\ UNCHANGED << exchange_data, adapter_vars, less_than_vars >>

FaultNext ==
    \/ Next
    \/ Fault_Unwrap
    \/ Fault_Question
    \/ Fault_Panic

FaultSpec == Init /\ [][FaultNext]_vars

---------------------------------------------------------------------------
(* tests/less_than_test.rs: two values are encrypted under one key pair,   *)
(* the ciphertexts are serialized and deserialized with bincode, compared  *)
(* with gt under the pair's server key, and the result is decrypted.  The  *)
(* test fixes clear_a = 11 and clear_b = 10; here they range over the      *)
(* values around these and 0.  The hashes and sizes the test prints (lines *)
(* 31-42) change nothing and are left out.                                 *)

\* a.gt(&b) under the active server key: the encrypted comparison when the
\* key is the public half of the pair of both, an unspecified bit otherwise.
FheGt(a, b, server_key) ==
    IF server_key.kind = "ServerKey" /\ server_key.id = a.key /\ a.key = b.key
    THEN {FheBool(a.key, Bit(a.val > b.val), config.bool_bytes)}
    ELSE {FheBool(a.key, v, config.bool_bytes) : v \in {0, 1}}

\* let clear_a = 11u32;
TestClearA == 11
\* let clear_b = 10u32;
TestClearB == 10

\* The values tried: those around the two of the test, and the least u32.
Clears == (TestClearB - MaxClearDelta)..(TestClearA + MaxClearDelta) \cup {0}

\* The exchange but the two things of the library it shares with this test,
\* the count of generated pairs and the server key slot.
exchange_rest ==
    << pc, i, inputs, keys_a, sent_by_a, received_by_b, evaluated_by_b,
       results_of_a, keys_b, sent_by_b, received_by_a, evaluated_by_a,
       results_of_b, logs >>

\* let (client_key, server_keys) = generate_keys(config);
LessThan_Keygen ==
    /\ lt_pc = "generate_keys"
    /\ client_key' = generate_keys(keys_generated)[1]
    /\ server_keys' = generate_keys(keys_generated)[2]
    /\ keys_generated' = keys_generated + 1
    /\ lt_pc' = "encrypted_a"
    /\ UNCHANGED << active_server_key, clear_a, clear_b, encrypted_a,
                    encrypted_b, serialized_a, serialized_b, deserialized_a,
                    deserialized_b, encrypted_is_greater, is_greater,
                    exchange_rest, adapter_vars >>

\* let encrypted_a = FheUint32::try_encrypt(clear_a, &client_key)?;
LessThan_EncryptA ==
    /\ lt_pc = "encrypted_a"
    /\ LET r == try_encrypt(clear_a, client_key)
       IN  IF r.ok
           THEN /\ encrypted_a' = r.value
                /\ lt_pc' = "encrypted_b"
           ELSE /\ lt_pc' = "returned_err"
                /\ UNCHANGED encrypted_a
    /\ UNCHANGED << keys_generated, active_server_key, clear_a, clear_b,
                    client_key, server_keys, encrypted_b, serialized_a,
                    serialized_b, deserialized_a, deserialized_b,
                    encrypted_is_greater, is_greater, exchange_rest,
                    adapter_vars >>

\* let encrypted_b = FheUint32::try_encrypt(clear_b, &client_key)?;
LessThan_EncryptB ==
    /\ lt_pc = "encrypted_b"
    /\ LET r == try_encrypt(clear_b, client_key)
       IN  IF r.ok
           THEN /\ encrypted_b' = r.value
                /\ lt_pc' = "set_server_key"
           ELSE /\ lt_pc' = "returned_err"
                /\ UNCHANGED encrypted_b
    /\ UNCHANGED << keys_generated, active_server_key, clear_a, clear_b,
                    client_key, server_keys, encrypted_a, serialized_a,
                    serialized_b, deserialized_a, deserialized_b,
                    encrypted_is_greater, is_greater, exchange_rest,
                    adapter_vars >>

\* set_server_key(server_keys);
LessThan_SetServerKey ==
    /\ lt_pc = "set_server_key"
    /\ active_server_key' = server_keys
    /\ lt_pc' = "serialized_a"
    /\ UNCHANGED << keys_generated, clear_a, clear_b, client_key,
                    server_keys, encrypted_a, encrypted_b, serialized_a,
                    serialized_b, deserialized_a, deserialized_b,
                    encrypted_is_greater, is_greater, exchange_rest,
                    adapter_vars >>

\* let serialized_a = bincode::serialize(&encrypted_a)?;
LessThan_SerializeA ==
    /\ lt_pc = "serialized_a"
    /\ LET r == bincode_serialize(encrypted_a)
       IN  IF r.ok
           THEN /\ serialized_a' = r.value
                /\ lt_pc' = "serialized_b"
           ELSE /\ lt_pc' = "returned_err"
                /\ UNCHANGED serialized_a
    /\ UNCHANGED << keys_generated, active_server_key, clear_a, clear_b,
                    client_key, server_keys, encrypted_a, encrypted_b,
                    serialized_b, deserialized_a, deserialized_b,
                    encrypted_is_greater, is_greater, exchange_rest,
                    adapter_vars >>

\* let serialized_b = bincode::serialize(&encrypted_b)?;
LessThan_SerializeB ==
    /\ lt_pc = "serialized_b"
    /\ LET r == bincode_serialize(encrypted_b)
       IN  IF r.ok
           THEN /\ serialized_b' = r.value
                /\ lt_pc' = "deserialized_a"
           ELSE /\ lt_pc' = "returned_err"
                /\ UNCHANGED serialized_b
    /\ UNCHANGED << keys_generated, active_server_key, clear_a, clear_b,
                    client_key, server_keys, encrypted_a, encrypted_b,
                    serialized_a, deserialized_a, deserialized_b,
                    encrypted_is_greater, is_greater, exchange_rest,
                    adapter_vars >>

\* let deserialized_a: FheUint32 = bincode::deserialize(&serialized_a)?;
LessThan_DeserializeA ==
    /\ lt_pc = "deserialized_a"
    /\ LET r == bincode_deserialize(serialized_a, "FheUint32")
       IN  IF r.ok
           THEN /\ deserialized_a' = r.value
                /\ lt_pc' = "deserialized_b"
           ELSE /\ lt_pc' = "returned_err"
                /\ UNCHANGED deserialized_a
    /\ UNCHANGED << keys_generated, active_server_key, clear_a, clear_b,
                    client_key, server_keys, encrypted_a, encrypted_b,
                    serialized_a, serialized_b, deserialized_b,
                    encrypted_is_greater, is_greater, exchange_rest,
                    adapter_vars >>

\* let deserialized_b: FheUint32 = bincode::deserialize(&serialized_b)?;
LessThan_DeserializeB ==
    /\ lt_pc = "deserialized_b"
    /\ LET r == bincode_deserialize(serialized_b, "FheUint32")
       IN  IF r.ok
           THEN /\ deserialized_b' = r.value
                /\ lt_pc' = "encrypted_is_greater"
           ELSE /\ lt_pc' = "returned_err"
                /\ UNCHANGED deserialized_b
    /\ UNCHANGED << keys_generated, active_server_key, clear_a, clear_b,
                    client_key, server_keys, encrypted_a, encrypted_b,
                    serialized_a, serialized_b, deserialized_a,
                    encrypted_is_greater, is_greater, exchange_rest,
                    adapter_vars >>

\* A slip: the operands the other way round, which computes b > a.
Comparison_swapped == FheGt(deserialized_b, deserialized_a, active_server_key)

\* deserialized_a.gt(&deserialized_b)
Comparison == FheGt(deserialized_a, deserialized_b, active_server_key)

\* let encrypted_is_greater = deserialized_a.gt(&deserialized_b);
\* (an operation with no server key set panics)
LessThan_Compare ==
    /\ lt_pc = "encrypted_is_greater"
    /\ IF active_server_key.kind # "ServerKey"
       THEN /\ lt_pc' = "panicked"
            /\ UNCHANGED encrypted_is_greater
       ELSE /\ encrypted_is_greater' \in Comparison
            /\ lt_pc' = "is_greater"
    /\ UNCHANGED << keys_generated, active_server_key, clear_a, clear_b,
                    client_key, server_keys, encrypted_a, encrypted_b,
                    serialized_a, serialized_b, deserialized_a,
                    deserialized_b, is_greater, exchange_rest, adapter_vars >>

\* let is_greater: bool = encrypted_is_greater.decrypt(&client_key);
LessThan_Decrypt ==
    /\ lt_pc = "is_greater"
    /\ is_greater' \in FheDecrypt(encrypted_is_greater, client_key)
    /\ lt_pc' = "assert"
    /\ UNCHANGED << keys_generated, active_server_key, clear_a, clear_b,
                    client_key, server_keys, encrypted_a, encrypted_b,
                    serialized_a, serialized_b, deserialized_a,
                    deserialized_b, encrypted_is_greater, exchange_rest,
                    adapter_vars >>

\* assert!(is_greater, ..); Ok(())
LessThan_Assert ==
    /\ lt_pc = "assert"
    /\ lt_pc' = (IF is_greater THEN "done" ELSE "panicked")
    /\ UNCHANGED << keys_generated, active_server_key, clear_a, clear_b,
                    client_key, server_keys, encrypted_a, encrypted_b,
                    serialized_a, serialized_b, deserialized_a,
                    deserialized_b, encrypted_is_greater, is_greater,
                    exchange_rest, adapter_vars >>

LessThanInit ==
    /\ lt_pc = "generate_keys"
    /\ clear_a \in Clears
    /\ clear_b \in Clears
    /\ client_key = None
    /\ server_keys = None
    /\ encrypted_a = None
    /\ encrypted_b = None
    /\ serialized_a = None
    /\ serialized_b = None
    /\ deserialized_a = None
    /\ deserialized_b = None
    /\ encrypted_is_greater = None
    /\ is_greater = FALSE
    /\ pc = "idle"
    /\ config \in Configs
    /\ sat1 = Sat1Reference
    /\ sat2 = Sat1Reference
    /\ ExchangeStart
    /\ AdapterIdle

LessThanNext ==
    \/ LessThan_Keygen
    \/ LessThan_EncryptA
    \/ LessThan_EncryptB
    \/ LessThan_SetServerKey
    \/ LessThan_SerializeA
    \/ LessThan_SerializeB
    \/ LessThan_DeserializeA
    \/ LessThan_DeserializeB
    \/ LessThan_Compare
    \/ LessThan_Decrypt
    \/ LessThan_Assert

LessThanSpec == LessThanInit /\ [][LessThanNext]_vars

---------------------------------------------------------------------------
(* The exchange on trajectories given in another index order: sat2 is any  *)
(* trajectory of Sat2Choices with its three time indices permuted.         *)

\* The permutations of the time indices.
IndexOrders ==
    {p \in [1..TrajLen -> 1..TrajLen] : \A j, k \in 1..TrajLen : p[j] = p[k] => j = k}

\* Trajectory t in the index order p: index j holds what t holds at p[j].
Permuted(t, p) == [axis \in Axes |-> [j \in 1..TrajLen |-> t[axis][p[j]]]]

PermutedInit ==
    /\ pc = "generate_keys_a"
    /\ config = [u32_bytes |-> SerializeLimit, bool_bytes |-> SerializeLimit,
                 key_bytes |-> SerializeLimit + 1]
    /\ sat1 = Sat1Reference
    /\ sat2 \in {Permuted(t, p) : t \in Sat2Choices, p \in IndexOrders}
    /\ ExchangeStart
    /\ AdapterIdle
    /\ LessThanIdle

PermutedSpec == PermutedInit /\ [][Next]_vars

---------------------------------------------------------------------------
(* The evaluation loop of party B by itself, as the function of its inputs *)
(* it is: three vectors of ciphertexts, whose lengths Vec<FheUint32> does  *)
(* not fix, a plaintext trajectory, and the active server key.             *)

\* A's coordinates on one axis continued to n time indices.
Continued(axis, n) ==
    [j \in 1..n |-> IF j <= TrajLen THEN Sat1Reference[axis][j]
                    ELSE Sat1Reference[axis][TrajLen] + (j - TrajLen)]

\* The lengths tried for a vector of ciphertexts.
CiphertextLengths == (TrajLen - MaxLengthDiff)..(TrajLen + MaxLengthDiff)

\* Ciphertexts under key pair 1 of n[axis] coordinates on each axis.
CiphertextsOfLengths(n) ==
    [axis \in Axes |->
        [j \in 1..n[axis] |->
            FheUint32(1, Continued(axis, n[axis])[j], SerializeLimit)]]

EvaluatorInit ==
    /\ pc = "collision_from_b"
    /\ i = 1
    /\ config = [u32_bytes |-> SerializeLimit, bool_bytes |-> SerializeLimit,
                 key_bytes |-> SerializeLimit]
    /\ sat1 = Sat1Reference
    /\ sat2 \in Sat2Choices
    /\ keys_generated = 1
    /\ client_key_a = ClientKey(1, SerializeLimit)
    /\ server_key_a = ServerKey(1, SerializeLimit)
    /\ server_key_a_for_b = server_key_a
    /\ active_server_key = server_key_a
    /\ \E n \in [Axes -> CiphertextLengths] :
          /\ enc_sat1 = CiphertextsOfLengths(n)
          /\ dec_enc_sat1 = CiphertextsOfLengths(n)
          /\ ser_enc_sat1 =
                [axis \in Axes |->
                    [j \in 1..n[axis] |->
                        safe_serialize_item(CiphertextsOfLengths(n)[axis][j]).value]]
    /\ ser_server_key_a = bincode_serialize(server_key_a).value
    /\ collision_ciphertexts_from_b = << >>
    /\ ser_collision_from_b = << >>
    /\ collision_ciphertexts_for_a = << >>
    /\ is_collision_a = << >>
    /\ collision_found_a = FALSE
    /\ client_key_b = None
    /\ server_key_b = None
    /\ enc_sat2 = NoTriple
    /\ ser_enc_sat2 = NoTriple
    /\ ser_server_key_b = None
    /\ dec_enc_sat2 = NoTriple
    /\ server_key_b_for_a = None
    /\ collision_ciphertexts_from_a = << >>
    /\ ser_collision_from_a = << >>
    /\ collision_ciphertexts_for_b = << >>
    /\ is_collision_b = << >>
    /\ collision_found_b = FALSE
    /\ eval_log = << >>
    /\ decrypt_log = << >>
    /\ AdapterIdle
    /\ LessThanIdle

EvaluatorNext == PartyB_Evaluate

EvaluatorSpec == EvaluatorInit /\ [][EvaluatorNext]_vars

---------------------------------------------------------------------------
(* One use of the serialization adapter of src/common.rs: an object is     *)
(* serialized, the buffer crosses a channel the receiver does not trust,   *)
(* and is deserialized into the type the receiver expects.                 *)

AdapterSizes == (SerializeLimit - SizeMargin)..(SerializeLimit + SizeMargin)

AdapterTypes == {"FheUint32", "FheBool", "ServerKey", "ClientKey"}

AdapterItems ==
    {FheUint32(k, v, n) : k \in 1..MaxAdapterKey, v \in 0..MaxAdapterVal,
                          n \in AdapterSizes}
    \cup {FheBool(k, v, n) : k \in 1..MaxAdapterKey, v \in {0, 1},
                             n \in AdapterSizes}
    \cup {ServerKey(k, n) : k \in 1..MaxAdapterKey, n \in AdapterSizes}
    \cup {ClientKey(k, n) : k \in 1..MaxAdapterKey, n \in AdapterSizes}

\* What the channel can turn a buffer into: another version in the header,
\* another type name in the header, a buffer cut short, or one that encodes
\* more bytes than the limit.
Tampered(blob) ==
    {[blob EXCEPT !.version = CurrentVersion + 1]}
    \cup {[blob EXCEPT !.name = T] : T \in AdapterTypes \ {blob.name}}
    \cup {[blob EXCEPT !.data = SubSeq(blob.data, 1, Len(blob.data) - 1),
                       !.bytes = blob.bytes - 1]}
    \cup {[blob EXCEPT !.bytes = DeserializeLimit + n] : n \in 1..SizeMargin}

\* let buf = safe_serialize_item(&item)
Adapter_Serialize ==
    /\ ser_pc = "start"
    /\ ser_buf' = safe_serialize_item(ser_item)
    /\ ser_pc' = "serialized"
    /\ UNCHANGED << ser_item, ser_data, ser_expect, ser_out, exchange_vars, less_than_vars >>

\* The buffer is handed to the other party as it is.
Adapter_Transmit ==
    /\ ser_pc = "serialized"
    /\ ser_buf.ok
    /\ ser_data' = ser_buf.value
    /\ ser_pc' = "received"
    /\ UNCHANGED << ser_item, ser_buf, ser_expect, ser_out, exchange_vars, less_than_vars >>

\* The buffer is changed on its way.
Adapter_Tamper ==
    /\ ser_pc = "serialized"
    /\ ser_buf.ok
    /\ ser_data' \in Tampered(ser_buf.value)
    /\ ser_pc' = "received"
    /\ UNCHANGED << ser_item, ser_buf, ser_expect, ser_out, exchange_vars, less_than_vars >>

\* let out: Result<T, _> = safe_deserialize_item(&data)
Adapter_Deserialize ==
    /\ ser_pc = "received"
    /\ ser_out' = safe_deserialize_item(ser_data, ser_expect)
    /\ ser_pc' = "deserialized"
    /\ UNCHANGED << ser_item, ser_buf, ser_data, ser_expect, exchange_vars, less_than_vars >>

AdapterInit ==
    /\ ser_pc = "start"
    /\ ser_item \in AdapterItems
    /\ ser_expect \in AdapterTypes
    /\ ser_buf = None
    /\ ser_data = None
    /\ ser_out = None
    /\ pc = "idle"
    /\ config = [u32_bytes |-> SerializeLimit, bool_bytes |-> SerializeLimit,
                 key_bytes |-> SerializeLimit]
    /\ sat1 = Sat1Reference
    /\ sat2 = Sat1Reference
    /\ ExchangeStart
    /\ LessThanIdle

AdapterNext ==
    \/ Adapter_Serialize
    \/ Adapter_Transmit
    \/ Adapter_Tamper
    \/ Adapter_Deserialize

AdapterSpec == AdapterInit /\ [][AdapterNext]_vars

---------------------------------------------------------------------------
(* What the claims speak of.                                               *)

\* 1 MiB, as the specification states the bound.
OneMiB == 2 ^ 20

\* The two trajectories coincide on all three axes at index j.
Shared(j) == \A axis \in Axes : sat1[axis][j] = sat2[axis][j]

\* The number of axes on which the trajectories agree at index j.
AxesMatching(j) == Cardinality({axis \in Axes : sat1[axis][j] = sat2[axis][j]})

\* Every buffer one party hands to the other.
Channel ==
    UNION {Range(ser_enc_sat1[axis]) \cup Range(ser_enc_sat2[axis]) : axis \in Axes}
    \cup Range(ser_collision_from_b) \cup Range(ser_collision_from_a)
    \cup ({ser_server_key_a, ser_server_key_b} \ {None})

\* blob is what one of the two serializers makes of obj.
SerializationOf(blob, obj) ==
    /\ blob.data = Encode(obj)
    /\ \/ blob = safe_serialize(obj, obj.bytes).value
       \/ blob = bincode_serialize(obj).value

\* The objects the protocol means to transmit.
Transmissible ==
    UNION {Range(enc_sat1[axis]) \cup Range(enc_sat2[axis]) : axis \in Axes}
    \cup Range(collision_ciphertexts_from_b) \cup Range(collision_ciphertexts_from_a)
    \cup ({server_key_a, server_key_b} \ {None})

\* The objects that must stay with their owner: the private keys and the
\* plaintext coordinates.
Secrets ==
    ({client_key_a, client_key_b} \ {None})
    \cup {[kind |-> "u32", val |-> sat[axis][j], bytes |-> 4] :
             sat \in {sat1, sat2}, axis \in Axes, j \in 1..TrajLen}

Full(t) == \A axis \in Axes : Len(t[axis]) = TrajLen
Started(t) == \E axis \in Axes : t[axis] # << >>

---------------------------------------------------------------------------
(* C1: two trajectories that share a triple at exactly one index k end a   *)
(* complete run with the flag true at k and false at every other index,    *)
(* in what A decrypts and in what B decrypts; when the only shared index   *)
(* is the first, both results are [true, false, false].                    *)
C1_ExactOverlap ==
    (pc = "done" /\ Cardinality({j \in 1..TrajLen : Shared(j)}) = 1) =>
        /\ Len(is_collision_a) = TrajLen
        /\ Len(is_collision_b) = TrajLen
        /\ \A j \in 1..TrajLen :
              /\ is_collision_a[j] = Shared(j)
              /\ is_collision_b[j] = Shared(j)
        /\ collision_found_a
        /\ collision_found_b
        /\ (Shared(1) =>
              /\ is_collision_a = << TRUE, FALSE, FALSE >>
              /\ is_collision_b = << TRUE, FALSE, FALSE >>)

C1_Witness ==
    /\ pc = "done"
    /\ Shared(1) /\ ~Shared(2) /\ ~Shared(3)
    /\ AxesMatching(2) = 2
    /\ is_collision_a = << TRUE, FALSE, FALSE >>
    /\ is_collision_b = << TRUE, FALSE, FALSE >>

(* C2: two trajectories that share no triple at any index, even when one   *)
(* or two axes match at an index, end a complete run with every flag       *)
(* false, in what A decrypts and in what B decrypts.                       *)
C2_NoOverlap ==
    (pc = "done" /\ \A j \in 1..TrajLen : ~Shared(j)) =>
        /\ Len(is_collision_a) = TrajLen
        /\ Len(is_collision_b) = TrajLen
        /\ \A j \in 1..TrajLen : ~is_collision_a[j] /\ ~is_collision_b[j]
        /\ ~collision_found_a
        /\ ~collision_found_b

\* The pattern of test_satellite_no_collision: two axes match at the first
\* index, one at the second, two at the third.
C2_Witness ==
    /\ pc = "done"
    /\ AxesMatching(1) = 2 /\ AxesMatching(2) = 1 /\ AxesMatching(3) = 2
    /\ sat2.x[1] = sat1.x[2]
    /\ is_collision_a = << FALSE, FALSE, FALSE >>
    /\ is_collision_b = << FALSE, FALSE, FALSE >>
    /\ ~collision_found_a /\ ~collision_found_b

(* C3: whenever a homomorphic operation runs, the active key slot holds    *)
(* the server key of the evaluating party's counterpart, the public half   *)
(* of the pair that encrypted the ciphertexts under evaluation: A's server *)
(* key while B evaluates, B's while A evaluates.                           *)
C3_ActiveKeyAtEvaluation ==
    /\ (pc = "collision_from_b" /\ i <= EvalCountB) =>
          /\ active_server_key = server_key_a
          /\ active_server_key.kind = "ServerKey"
          /\ \A axis \in Axes : dec_enc_sat1[axis][i].key = active_server_key.id
    /\ (pc = "collision_from_a" /\ i <= EvalCountA) =>
          /\ active_server_key = server_key_b
          /\ active_server_key.kind = "ServerKey"
          /\ \A axis \in Axes : dec_enc_sat2[axis][i].key = active_server_key.id
    /\ \A e \in Range(eval_log) :
          /\ e.active.kind = "ServerKey"
          /\ e.ct_keys = {e.active.id}
          /\ e.active = (IF e.party = "B" THEN server_key_a ELSE server_key_b)
          /\ e.active.id = (IF e.party = "B" THEN client_key_a.id ELSE client_key_b.id)

C3_Witness ==
    /\ Len(eval_log) = 2 * TrajLen
    /\ eval_log[1].party = "B" /\ eval_log[1].active = server_key_a
    /\ eval_log[2 * TrajLen].party = "A"
    /\ eval_log[2 * TrajLen].active = server_key_b
    /\ server_key_a # server_key_b

(* C4: every buffer handed from one party to the other is the              *)
(* serialization of a coordinate ciphertext, of a collision flag           *)
(* ciphertext or of a server key; no private key and no plaintext          *)
(* coordinate is ever serialized onto the channel.                         *)
C4_OnlyPublicObjectsOnChannel ==
    LET transmissible == Transmissible
        secrets == Secrets
    IN  \A blob \in Channel :
            /\ \E obj \in transmissible :
                  /\ obj.kind \in {"FheUint32", "FheBool", "ServerKey"}
                  /\ SerializationOf(blob, obj)
            /\ \A secret \in secrets : ~SerializationOf(blob, secret)

C4_Witness ==
    /\ pc = "done"
    /\ ser_server_key_a \in Channel /\ ser_server_key_b \in Channel
    /\ Full(ser_enc_sat1) /\ Full(ser_enc_sat2)
    /\ Len(ser_collision_from_a) = TrajLen /\ Len(ser_collision_from_b) = TrajLen

(* C5: every decryption uses the private key of the pair under which the   *)
(* compared coordinates were encrypted: the flags B evaluated from A's     *)
(* ciphertexts are decrypted with A's private key only, those A evaluated  *)
(* from B's ciphertexts with B's private key only, so no collision result  *)
(* comes from a decryption under the other party's key.                    *)
C5_DecryptWithMatchingKey ==
    /\ Len(is_collision_a) + Len(is_collision_b) = Len(decrypt_log)
    /\ \A e \in Range(decrypt_log) :
          /\ e.key.kind = "ClientKey"
          /\ e.key.id = e.ct_key
          /\ e.party = "A" =>
                /\ e.key = client_key_a
                /\ \A axis \in Axes : \A ct \in Range(enc_sat1[axis]) : ct.key = e.key.id
          /\ e.party = "B" =>
                /\ e.key = client_key_b
                /\ \A axis \in Axes : \A ct \in Range(enc_sat2[axis]) : ct.key = e.key.id

C5_Witness ==
    /\ Len(decrypt_log) = 2 * TrajLen
    /\ decrypt_log[1].party = "A" /\ decrypt_log[1].key = client_key_a
    /\ decrypt_log[2 * TrajLen].party = "B"
    /\ decrypt_log[2 * TrajLen].key = client_key_b
    /\ client_key_a # client_key_b

\* The ciphertexts of one hand-over went through the adapter: each buffer of
\* ser is safe_serialize_item of the object at its position, within the
\* bound, and each received object is safe_deserialize_item of its buffer.
ThroughAdapter(objs, ser, received, T) ==
    /\ \A j \in DOMAIN ser :
          /\ ser[j].format = "tfhe_safe"
          /\ ser[j].bytes <= OneMiB
          /\ safe_serialize_item(objs[j]) = Ok(ser[j])
    /\ \A j \in DOMAIN received :
          safe_deserialize_item(ser[j], T) = Ok(received[j])

\* A server key was handed over by bincode, outside the adapter.
KeyThroughBincode(key, ser, received) ==
    /\ ser # None =>
          /\ ser.format = "bincode"
          /\ bincode_serialize(key) = Ok(ser)
    /\ received # None => bincode_deserialize(ser, "ServerKey") = Ok(received)

(* C6, as claimed: everything that crosses the party boundary, server keys *)
(* included, is encoded by the size-bounded versioned serializer, so every *)
(* buffer on the channel has its format and is within 1 MiB.               *)
C6_AllThroughAdapter ==
    \A blob \in Channel : blob.format = "tfhe_safe" /\ blob.bytes <= OneMiB

(* C6, amended: the coordinate ciphertexts and the collision flag          *)
(* ciphertexts that cross the party boundary are encoded by                *)
(* safe_serialize_item (bound 1 MiB) and decoded by safe_deserialize_item; *)
(* the server keys are encoded by bincode::serialize and decoded by        *)
(* bincode::deserialize, without header and without size bound.            *)
C6_CiphertextsThroughAdapter ==
    /\ \A axis \in Axes :
          /\ ThroughAdapter(enc_sat1[axis], ser_enc_sat1[axis],
                            dec_enc_sat1[axis], "FheUint32")
          /\ ThroughAdapter(enc_sat2[axis], ser_enc_sat2[axis],
                            dec_enc_sat2[axis], "FheUint32")
    /\ ThroughAdapter(collision_ciphertexts_from_b, ser_collision_from_b,
                      collision_ciphertexts_for_a, "FheBool")
    /\ ThroughAdapter(collision_ciphertexts_from_a, ser_collision_from_a,
                      collision_ciphertexts_for_b, "FheBool")
    /\ KeyThroughBincode(server_key_a, ser_server_key_a, server_key_a_for_b)
    /\ KeyThroughBincode(server_key_b, ser_server_key_b, server_key_b_for_a)

\* A complete run in which both server keys, larger than 1 MiB, reached the
\* other party.
C6_Witness ==
    /\ pc = "done"
    /\ ser_server_key_a.format = "bincode" /\ ser_server_key_a.bytes > OneMiB
    /\ ser_server_key_b.format = "bincode" /\ ser_server_key_b.bytes > OneMiB
    /\ server_key_a_for_b = server_key_a
    /\ server_key_b_for_a = server_key_b
    /\ Full(dec_enc_sat1) /\ Full(dec_enc_sat2)
    /\ Len(collision_ciphertexts_for_a) = TrajLen
    /\ Len(collision_ciphertexts_for_b) = TrajLen

(* C7: for every object whose encoding fits the bound, safe_serialize_item *)
(* succeeds, and safe_deserialize_item of the buffer it returned, into the *)
(* object's own type, succeeds and returns an object equal to it.          *)
C7_RoundTrip ==
    /\ (ser_pc \in {"serialized", "received", "deserialized"}
            /\ ser_item.bytes <= OneMiB) => ser_buf.ok
    /\ (ser_pc = "deserialized" /\ ser_data = ser_buf.value
            /\ ser_expect = ser_item.kind) => ser_out = Ok(ser_item)

\* A round trip of an object whose encoding is exactly 1 MiB long.
C7_Witness ==
    /\ ser_pc = "deserialized"
    /\ ser_data = ser_buf.value
    /\ ser_item.bytes = OneMiB
    /\ ser_item.kind = "FheUint32"
    /\ ser_out.ok
    /\ ser_out.value = ser_item

(* C8: safe_deserialize_item returns a result, an object or an error: for  *)
(* a buffer above 1 MiB, one whose type name is not the destination type,  *)
(* or one of another version, the result is an error and holds no object;  *)
(* a result that holds an object holds a whole one, of the destination     *)
(* type.                                                                   *)
C8_AllOrNothing ==
    ser_pc = "deserialized" =>
        /\ ser_out.ok \in BOOLEAN
        /\ ser_out.ok => DOMAIN ser_out = {"ok", "value"}
        /\ ~ser_out.ok => DOMAIN ser_out = {"ok", "err"}
        /\ (\/ ser_data.bytes > OneMiB
            \/ ser_data.name # ser_expect
            \/ ser_data.version # CurrentVersion) => ~ser_out.ok
        /\ ser_out.ok =>
              /\ ser_out.value.kind = ser_expect
              /\ DOMAIN ser_out.value = DOMAIN Decode(ser_expect, << 0, 0, 0 >>, 0)
              /\ Encode(ser_out.value) = ser_data.data

\* A buffer above the bound, of the expected type and version, refused.
C8_Witness ==
    /\ ser_pc = "deserialized"
    /\ ser_data.bytes > OneMiB
    /\ ser_data.name = ser_expect
    /\ ser_data.version = CurrentVersion
    /\ ~ser_out.ok
    /\ ser_out.err = "SizeLimit"

(* C9: safe_serialize_item returns a buffer exactly when the encoding is   *)
(* at most 1 MiB long and a size limit error otherwise; a buffer it        *)
(* returns is at most 1 MiB long, which is the bound safe_deserialize_item *)
(* enforces.                                                               *)
C9_SerializeBounded ==
    ser_pc \in {"serialized", "received", "deserialized"} =>
        /\ ser_buf.ok <=> ser_item.bytes <= OneMiB
        /\ ser_buf.ok =>
              /\ ser_buf.value.bytes <= OneMiB
              /\ ser_buf.value.bytes <= DeserializeLimit
        /\ ~ser_buf.ok => ser_buf.err = "SizeLimit"
        /\ SerializeLimit = OneMiB
        /\ DeserializeLimit = OneMiB

\* An object one byte too long, refused.
C9_Witness ==
    /\ ser_pc = "serialized"
    /\ ser_item.bytes = OneMiB + 1
    /\ ~ser_buf.ok
    /\ ser_buf.err = "SizeLimit"

\* One direction of the exchange, stage by stage: nothing of a stage exists
\* before the stage it reads from is complete.
Pipeline(enc, ser, ser_key, dec, key_for, flags, ser_flags, flags_for, out) ==
    /\ Started(ser) => Full(enc)
    /\ Started(dec) => Full(ser) /\ ser_key # None
    /\ key_for # None => ser_key # None
    /\ flags # << >> => Full(dec) /\ key_for # None
    /\ ser_flags # << >> => Len(flags) = TrajLen
    /\ flags_for # << >> => Len(ser_flags) = TrajLen
    /\ out # << >> => Len(flags_for) = TrajLen

(* C10: within one direction the steps form a strict pipeline: all 3N      *)
(* coordinates are encrypted before any is serialized, all are serialized  *)
(* before any is deserialized by the receiver, all are received before any *)
(* flag is evaluated, and all N flags are evaluated before any is          *)
(* serialized, received and decrypted.                                     *)
C10_StrictPipeline ==
    /\ Pipeline(enc_sat1, ser_enc_sat1, ser_server_key_a, dec_enc_sat1,
                server_key_a_for_b, collision_ciphertexts_from_b,
                ser_collision_from_b, collision_ciphertexts_for_a,
                is_collision_a)
    /\ Pipeline(enc_sat2, ser_enc_sat2, ser_server_key_b, dec_enc_sat2,
                server_key_b_for_a, collision_ciphertexts_from_a,
                ser_collision_from_a, collision_ciphertexts_for_b,
                is_collision_b)

C10_Witness ==
    /\ pc = "done"
    /\ Full(enc_sat1) /\ Full(ser_enc_sat1) /\ Full(dec_enc_sat1)
    /\ Full(enc_sat2) /\ Full(ser_enc_sat2) /\ Full(dec_enc_sat2)
    /\ Len(is_collision_a) = TrajLen
    /\ Len(is_collision_b) = TrajLen

\* The state of the protocol that statement l belongs to: 1 PartyA_Keygen,
\* 2 PartyA_Encrypt, 3 Transmit_AB, 4 PartyB_Evaluate (with its activation),
\* 5 Transmit_BA_Result, 6 PartyA_Decrypt, 7 PartyB_Keygen, 8 PartyB_Encrypt,
\* 9 Transmit_BA, 10 PartyA_Evaluate, 11 Transmit_AB_Result,
\* 12 PartyB_Decrypt, 13 Done.  Init is the state before the first of them.
Stage(l) ==
    CASE l = "generate_keys_a" -> 1
      [] l \in {"enc_sat1_x", "enc_sat1_y", "enc_sat1_z"} -> 2
      [] l \in {"ser_enc_sat1_x", "ser_enc_sat1_y", "ser_enc_sat1_z",
                "ser_server_key_a", "dec_enc_sat1_x", "dec_enc_sat1_y",
                "dec_enc_sat1_z", "server_key_a_for_b"} -> 3
      [] l \in {"set_server_key_a", "collision_from_b"} -> 4
      [] l \in {"ser_collision_from_b", "collision_ciphertexts_for_a"} -> 5
      [] l = "decrypt_a" -> 6
      [] l = "generate_keys_b" -> 7
      [] l \in {"enc_sat2_x", "enc_sat2_y", "enc_sat2_z"} -> 8
      [] l \in {"ser_enc_sat2_x", "ser_enc_sat2_y", "ser_enc_sat2_z",
                "ser_server_key_b", "dec_enc_sat2_x", "dec_enc_sat2_y",
                "dec_enc_sat2_z", "server_key_b_for_a"} -> 9
      [] l \in {"set_server_key_b", "collision_from_a"} -> 10
      [] l \in {"ser_collision_from_a", "collision_ciphertexts_for_b"} -> 11
      [] l = "decrypt_b" -> 12
      [] l = "done" -> 13
      [] OTHER -> 0

\* The inputs under which no step of the exchange fails: the ciphertexts fit
\* the bound of the adapter (u32 coordinates are in range by their type, and
\* the trajectories are of equal length by theirs).
NoStepCanFail ==
    /\ config.u32_bytes <= SerializeLimit
    /\ config.bool_bytes <= SerializeLimit
    /\ \A axis \in Axes : Len(sat1[axis]) = Len(sat2[axis])

(* C11: a run starts in PartyA_Keygen and every step either stays in the    *)
(* state of the protocol it is in or moves to the next of the thirteen, in  *)
(* the order Init, PartyA_Keygen, PartyA_Encrypt, Transmit_AB,              *)
(* PartyB_Evaluate, Transmit_BA_Result, PartyA_Decrypt, PartyB_Keygen,      *)
(* PartyB_Encrypt, Transmit_BA, PartyA_Evaluate, Transmit_AB_Result,        *)
(* PartyB_Decrypt, Done; with inputs under which no step fails the run      *)
(* eventually reaches Done, and there both boolean sequences, the           *)
(* collisions seen by A and those seen by B, are complete.                  *)
C11_OrderedRunToDone ==
    /\ Stage(pc) = 1
    /\ [][pc' \notin Failed => Stage(pc') \in {Stage(pc), Stage(pc) + 1}]_vars
    /\ NoStepCanFail =>
          <>(/\ pc = "done"
             /\ Len(is_collision_a) = TrajLen
             /\ Len(is_collision_b) = TrajLen)

C11_Witness ==
    /\ pc = "done"
    /\ NoStepCanFail
    /\ Len(eval_log) = 2 * TrajLen /\ Len(decrypt_log) = 2 * TrajLen
    /\ Len(is_collision_a) = TrajLen /\ collision_found_a
    /\ Len(is_collision_b) = TrajLen /\ is_collision_b[2]

\* The decryptions party p has made.
DecryptionsBy(p) == Len(SelectSeq(decrypt_log, LAMBDA e : e.party = p))

(* C12: a step that fails ends the run there.  No step is taken from a     *)
(* failed run, so nothing later executes, nothing is retried and Done is   *)
(* not reached; the failing step leaves every variable of the exchange as  *)
(* it was; a step that goes on has done the work of its statement and goes *)
(* to the same or the next statement, so a failure is never passed over;   *)
(* and a failed run holds decrypted flags only from a decryption stage     *)
(* that ran, never those of B, whose decryption is the last stage.         *)
C12_AbortAtFirstFailure ==
    /\ [][pc \notin Failed]_vars
    /\ [][pc' \in Failed => exchange_data' = exchange_data]_vars
    /\ [][pc' \notin Failed =>
             /\ exchange_data' # exchange_data
             /\ Position(pc') \in {Position(pc), Position(pc) + 1}]_vars
    /\ [](pc \in Failed =>
             /\ Len(is_collision_a) = DecryptionsBy("A")
             /\ collision_ciphertexts_for_a = << >> =>
                   is_collision_a = << >> /\ ~collision_found_a
             /\ DecryptionsBy("B") = 0
             /\ is_collision_b = << >> /\ ~collision_found_b)

\* A run that failed inside B's evaluation loop, after one flag.
C12_Witness ==
    /\ pc = "panicked"
    /\ Full(dec_enc_sat1)
    /\ Len(collision_ciphertexts_from_b) = 1
    /\ ser_collision_from_b = << >>
    /\ is_collision_a = << >>
    /\ NoStepCanFail

(* C13: two u32 values encrypted under one private key, serialized and     *)
(* deserialized, and compared with gt while the server key of the same     *)
(* pair is active, decrypt under that private key to exactly a > b.  The   *)
(* key is activated after both encryptions and stays active until the      *)
(* comparison; the ciphertexts compared are the ones encrypted; the only   *)
(* way the test fails is its assert, when a > b is false; for a = 11 and   *)
(* b = 10 the result is true and the test passes.                          *)
C13_GreaterThan ==
    /\ lt_pc \in {"encrypted_a", "encrypted_b", "set_server_key"} =>
          active_server_key = None
    /\ lt_pc \in {"serialized_a", "serialized_b", "deserialized_a",
                  "deserialized_b", "encrypted_is_greater", "is_greater"} =>
          /\ active_server_key = server_keys
          /\ server_keys.kind = "ServerKey"
          /\ server_keys.id = client_key.id
          /\ encrypted_a.key = client_key.id
          /\ encrypted_b.key = client_key.id
    /\ lt_pc \in {"encrypted_is_greater", "is_greater"} =>
          /\ deserialized_a = encrypted_a /\ deserialized_a.val = clear_a
          /\ deserialized_b = encrypted_b /\ deserialized_b.val = clear_b
    /\ lt_pc \in {"assert", "done"} => is_greater = (clear_a > clear_b)
    /\ lt_pc = "done" => is_greater
    /\ lt_pc = "panicked" => ~is_greater /\ ~(clear_a > clear_b)
    /\ lt_pc # "returned_err"
    /\ (clear_a = TestClearA /\ clear_b = TestClearB) => lt_pc # "panicked"

\* The test as written: 11 > 10 decrypts to true and the test passes.
C13_Witness ==
    /\ lt_pc = "done"
    /\ clear_a = TestClearA /\ clear_b = TestClearB
    /\ encrypted_is_greater.val = 1
    /\ is_greater

\* The conjunction of the three equalities at index k, on the plaintexts.
EqualTriple(k) ==
    (sat1.x[k] = sat2.x[k]) /\ (sat1.y[k] = sat2.y[k]) /\ (sat1.z[k] = sat2.z[k])

\* The flag at index k grouped the other way, as eq_x & (eq_y & eq_z).
Regrouped(cts, plain, k) ==
    UNION { UNION { FheAnd(eq_x, yz, active_server_key) :
                    yz \in FheAnd(eq_y, eq_z, active_server_key) } :
            << eq_x, eq_y, eq_z >> \in
                FheEq(cts.x[k], plain.x[k], active_server_key)
                \X FheEq(cts.y[k], plain.y[k], active_server_key)
                \X FheEq(cts.z[k], plain.z[k], active_server_key) }

(* C14: at every index the flag evaluated, and the boolean decrypted from  *)
(* it, is the conjunction of the equality on x, the equality on y and the  *)
(* equality on z of the two plaintext trajectories, in both directions and *)
(* for every pair of trajectories; and whenever an index is about to be    *)
(* evaluated, grouping the two ANDs the other way gives the same flag.     *)
C14_FlagIsConjunction ==
    /\ \A j \in DOMAIN collision_ciphertexts_from_b :
          collision_ciphertexts_from_b[j].val = Bit(EqualTriple(j))
    /\ \A j \in DOMAIN collision_ciphertexts_from_a :
          collision_ciphertexts_from_a[j].val = Bit(EqualTriple(j))
    /\ \A j \in DOMAIN is_collision_a : is_collision_a[j] = EqualTriple(j)
    /\ \A j \in DOMAIN is_collision_b : is_collision_b[j] = EqualTriple(j)
    /\ (pc = "collision_from_b" /\ i <= EvalCountB) =>
          CollisionFromB(i) = Regrouped(dec_enc_sat1, sat2, i)
    /\ (pc = "collision_from_a" /\ i <= EvalCountA) =>
          CollisionFromA(i) = Regrouped(dec_enc_sat2, sat1, i)

\* A run in which, at the same index, two axes agree and the third does not,
\* and at another index all three agree.
C14_Witness ==
    /\ pc = "done"
    /\ \E j, k \in 1..TrajLen :
          /\ AxesMatching(j) = 2 /\ ~is_collision_a[j] /\ ~is_collision_b[j]
          /\ AxesMatching(k) = 3 /\ is_collision_a[k] /\ is_collision_b[k]
    /\ sat1.z[3] # sat2.z[3] /\ sat1.x[3] = sat2.x[3] /\ sat1.y[3] = sat2.y[3]

(* C15: an evaluation loop is entered only by the step that activates the  *)
(* key it needs: B's loop from set_server_key with A's server key, A's     *)
(* loop from set_server_key with B's server key, so no other statement     *)
(* lies between the activation and the first eq; the slot keeps that key   *)
(* through the loop; and every index A evaluates runs under B's key, which *)
(* is not the key left in the slot by the first direction.                 *)
C15_ActivationBeforeEvaluation ==
    /\ [][(pc' = "collision_from_b" /\ pc # "collision_from_b") =>
             /\ pc = "set_server_key_a"
             /\ active_server_key' = server_key_a
             /\ active_server_key'.kind = "ServerKey"
             /\ i' = 1 /\ collision_ciphertexts_from_b' = << >>]_vars
    /\ [][(pc' = "collision_from_a" /\ pc # "collision_from_a") =>
             /\ pc = "set_server_key_b"
             /\ active_server_key = server_key_a
             /\ active_server_key' = server_key_b
             /\ active_server_key' # active_server_key
             /\ i' = 1 /\ collision_ciphertexts_from_a' = << >>]_vars
    /\ [][(pc \in {"collision_from_b", "collision_from_a"}) =>
             active_server_key' = active_server_key]_vars
    /\ [](\A e \in Range(eval_log) :
             e.party = "A" => e.active = server_key_b /\ e.active # server_key_a)

\* A is about to evaluate its first index: the slot, which held A's key while
\* B evaluated, holds B's.
C15_Witness ==
    /\ pc = "collision_from_a" /\ i = 1
    /\ Len(eval_log) = TrajLen
    /\ eval_log[TrajLen].party = "B" /\ eval_log[TrajLen].active = server_key_a
    /\ active_server_key = server_key_b
    /\ active_server_key # server_key_a

\* The flags of one direction, stage by stage, keep their index: buffer j is
\* the encoding of flag j, received flag j is flag j, boolean j is its bit.
InIndexOrder(flags, ser_flags, flags_for, out) ==
    /\ \A j \in DOMAIN flags : flags[j].val = Bit(Shared(j))
    /\ \A j \in DOMAIN ser_flags : ser_flags[j].data = Encode(flags[j])
    /\ \A j \in DOMAIN flags_for : flags_for[j] = flags[j]
    /\ \A j \in DOMAIN out : out[j] = (flags_for[j].val = 1) /\ out[j] = Shared(j)
    /\ Len(ser_flags) \in {0, TrajLen}
    /\ Len(flags_for) \in {0, TrajLen}

\* The run has left the loop at statement l without failing.
Past(l) == pc \notin Failed /\ Position(pc) > Position(l)

(* C16: an evaluation loop evaluates the indices 1, 2, .., N in this order, *)
(* each once, and when it is left its result holds exactly N flags, the    *)
(* flag of index j at position j; the serialized, the received and the     *)
(* decrypted result keep every flag at its position; nothing is left out   *)
(* or merged, so trajectories that collide at several indices have true at *)
(* each of them.                                                           *)
C16_FlagsInIndexOrder ==
    /\ \A n \in DOMAIN eval_log :
          /\ eval_log[n].party = (IF n <= TrajLen THEN "B" ELSE "A")
          /\ eval_log[n].index = (IF n <= TrajLen THEN n ELSE n - TrajLen)
    /\ Past("collision_from_b") =>
          Len(collision_ciphertexts_from_b) = TrajLen /\ Len(eval_log) >= TrajLen
    /\ Past("collision_from_a") =>
          Len(collision_ciphertexts_from_a) = TrajLen /\ Len(eval_log) = 2 * TrajLen
    /\ Past("decrypt_a") => Len(is_collision_a) = TrajLen
    /\ Past("decrypt_b") => Len(is_collision_b) = TrajLen
    /\ InIndexOrder(collision_ciphertexts_from_b, ser_collision_from_b,
                    collision_ciphertexts_for_a, is_collision_a)
    /\ InIndexOrder(collision_ciphertexts_from_a, ser_collision_from_a,
                    collision_ciphertexts_for_b, is_collision_b)

\* Collisions at the first and at the last index, none in between.
C16_Witness ==
    /\ pc = "done"
    /\ Shared(1) /\ ~Shared(2) /\ Shared(3)
    /\ is_collision_a = << TRUE, FALSE, TRUE >>
    /\ is_collision_b = << TRUE, FALSE, TRUE >>
    /\ collision_ciphertexts_from_b[1] = collision_ciphertexts_from_b[3]

\* The flag of index k as the evaluation loop computes it, for the
\* ciphertexts cts and the plaintext trajectory plain.
FlagAt(cts, plain, k) ==
    UNION { UNION { FheAnd(xy, eq_z, active_server_key) :
                    xy \in FheAnd(eq_x, eq_y, active_server_key) } :
            << eq_x, eq_y, eq_z >> \in
                FheEq(cts.x[k], plain.x[k], active_server_key)
                \X FheEq(cts.y[k], plain.y[k], active_server_key)
                \X FheEq(cts.z[k], plain.z[k], active_server_key) }

\* Trajectory t with every index but k changed or moved: the values at the
\* other indices raised by d, or the other indices in any other order.
ElsewhereChanged(t, k) ==
    {[axis \in Axes |->
         [j \in DOMAIN t[axis] |-> IF j = k THEN t[axis][j] ELSE t[axis][j] + d]] :
         d \in 1..MaxDelta}
    \cup {Permuted(t, p) : p \in {q \in IndexOrders : q[k] = k}}

\* Ciphertexts cts with the other indices in the order p.
PermutedCiphertexts(cts, p) ==
    [axis \in Axes |-> [j \in 1..TrajLen |-> cts[axis][p[j]]]]

(* C17: the flag at an index is a function of the two trajectories' values *)
(* at that index.  Whenever index i is about to be evaluated, the flag is  *)
(* the same for every plaintext trajectory, and for every order of the     *)
(* ciphertexts, that differs from the actual one only at other indices;    *)
(* and for a trajectory in any index order, the indices reported as        *)
(* collisions are exactly those at which it coincides, as reordered, with  *)
(* the other trajectory.                                                   *)
C17_IndexIndependence ==
    /\ (pc = "collision_from_b" /\ i <= EvalCountB) =>
          /\ \A other \in ElsewhereChanged(sat2, i) :
                FlagAt(dec_enc_sat1, other, i) = CollisionFromB(i)
          /\ \A p \in {q \in IndexOrders : q[i] = i} :
                FlagAt(PermutedCiphertexts(dec_enc_sat1, p), sat2, i) = CollisionFromB(i)
    /\ (pc = "collision_from_a" /\ i <= EvalCountA) =>
          /\ \A other \in ElsewhereChanged(sat1, i) :
                FlagAt(dec_enc_sat2, other, i) = CollisionFromA(i)
          /\ \A p \in {q \in IndexOrders : q[i] = i} :
                FlagAt(PermutedCiphertexts(dec_enc_sat2, p), sat1, i) = CollisionFromA(i)
    /\ pc = "done" =>
          /\ {j \in 1..TrajLen : is_collision_a[j]} = {j \in 1..TrajLen : Shared(j)}
          /\ {j \in 1..TrajLen : is_collision_b[j]} = {j \in 1..TrajLen : Shared(j)}

\* sat2 is sat1 with its first two indices exchanged: the only collision
\* reported is at the third.
C17_Witness ==
    /\ pc = "done"
    /\ sat2 = Permuted(sat1, << 2, 1, 3 >>)
    /\ is_collision_a = << FALSE, FALSE, TRUE >>
    /\ is_collision_b = << FALSE, FALSE, TRUE >>

\* The statements that assign the server key slot.
ActivateStatements == {"set_server_key_a", "set_server_key_b"}

(* C18: key generation has no effect on the server key slot: both keygen   *)
(* steps leave it as it is.  The slot changes only in a set_server_key     *)
(* step, to the key that step is given, and between two such steps it      *)
(* keeps its value: it is empty until the first, A's server key from the   *)
(* first to the second, and B's server key from then on.                   *)
C18_SlotChangesOnlyAtActivation ==
    /\ [][(pc \in {"generate_keys_a", "generate_keys_b"}) =>
             /\ active_server_key' = active_server_key
             /\ keys_generated' = keys_generated + 1]_vars
    /\ [][active_server_key' # active_server_key => pc \in ActivateStatements]_vars
    /\ [][(pc = "set_server_key_a") => active_server_key' = server_key_a_for_b]_vars
    /\ [][(pc = "set_server_key_b") => active_server_key' = server_key_b_for_a]_vars
    /\ [](pc \notin Failed =>
             active_server_key =
                 (IF Position(pc) <= Position("set_server_key_a") THEN None
                  ELSE IF Position(pc) <= Position("set_server_key_b")
                       THEN server_key_a
                       ELSE server_key_b))

\* B has generated its pair; the slot still holds the key A's direction set.
C18_Witness ==
    /\ pc = "enc_sat2_x"
    /\ keys_generated = 2
    /\ server_key_b # None
    /\ active_server_key = server_key_a
    /\ active_server_key # server_key_b

\* The ciphertexts and the plaintext given to B's loop differ in length on
\* some axis.
LengthMismatch == \E axis \in Axes : Len(dec_enc_sat1[axis]) # Len(sat2[axis])

\* The ciphertexts are shorter than the plaintext on some axis.
CiphertextsShorter == \E axis \in Axes : Len(dec_enc_sat1[axis]) < Len(sat2[axis])

C19_ShorterFails ==
    /\ CiphertextsShorter =>
          /\ pc \in {"collision_from_b", "panicked"}
          /\ pc = "panicked" =>
                \E axis \in Axes :
                    Len(collision_ciphertexts_from_b) = Len(dec_enc_sat1[axis])
    /\ ~CiphertextsShorter =>
          /\ pc # "panicked"
          /\ pc = "ser_collision_from_b" =>
                Len(collision_ciphertexts_from_b) = Len(sat2.x)

OnePairThroughout(private, public, enc, evaluator, decryptor) ==
    /\ private # None => public.id = private.id
    /\ \A axis \in Axes : \A ct \in Range(enc[axis]) : ct.key = private.id
    /\ \A e \in Range(eval_log) :
          e.party = evaluator => e.active = public /\ e.ct_keys = {private.id}
    /\ \A e \in Range(decrypt_log) :
          e.party = decryptor => e.key = private /\ e.ct_key = private.id

(* C20: a run generates one key pair for A and one for B and no other; a   *)
(* pair, once generated, never changes, so each private key is the same    *)
(* from its keygen to its decryption; the two pairs are different pairs;   *)
(* and in each direction the private key that decrypts the flags is the    *)
(* one that encrypted the coordinates, and the server key active in the    *)
(* evaluation is the public half of the same pair.                         *)
C20_OneKeyPairPerParty ==
    /\ [](keys_generated = (IF client_key_a = None THEN 0 ELSE 1)
                           + (IF client_key_b = None THEN 0 ELSE 1))
    /\ [][(client_key_a # None) =>
             client_key_a' = client_key_a /\ server_key_a' = server_key_a]_vars
    /\ [][(client_key_b # None) =>
             client_key_b' = client_key_b /\ server_key_b' = server_key_b]_vars
    /\ [](client_key_b # None =>
             /\ client_key_a # None
             /\ client_key_a.id # client_key_b.id
             /\ server_key_a.id # server_key_b.id)
    /\ [](OnePairThroughout(client_key_a, server_key_a, enc_sat1, "B", "A"))
    /\ [](OnePairThroughout(client_key_b, server_key_b, enc_sat2, "A", "B"))

\* A complete run: two pairs, each used for its own direction from the
\* encryption of the coordinates to the decryption of the flags.
C20_Witness ==
    /\ pc = "done"
    /\ keys_generated = 2
    /\ client_key_a.id # client_key_b.id
    /\ enc_sat1.x[1].key = client_key_a.id /\ decrypt_log[1].key = client_key_a
    /\ enc_sat2.x[1].key = client_key_b.id
    /\ decrypt_log[TrajLen + 1].key = client_key_b

\* Some flag of the sequence is true.
AnyTrue(flags) == \E j \in DOMAIN flags : flags[j]

(* C21: in every completed run, whatever the two trajectories and whatever *)
(* their index order, A and B have decrypted the same number of flags, the *)
(* flag A decrypted at index j equals the flag B decrypted at index j for  *)
(* every j, each party's collision_found is true exactly when one of its   *)
(* flags is, and so the two collision_found booleans are equal.            *)
C21_DirectionsAgree ==
    pc = "done" =>
        /\ Len(is_collision_a) = Len(is_collision_b)
        /\ \A j \in DOMAIN is_collision_a : is_collision_a[j] = is_collision_b[j]
        /\ collision_found_a = AnyTrue(is_collision_a)
        /\ collision_found_b = AnyTrue(is_collision_b)
        /\ collision_found_a = collision_found_b

\* A completed run on trajectories that are not those of the tests: the
\* only collision is at the second index, and both parties report it.
C21_Witness ==
    /\ pc = "done"
    /\ sat2.x[1] # sat1.x[1] /\ Shared(2) /\ sat2.z[3] # sat1.z[3]
    /\ is_collision_a = << FALSE, TRUE, FALSE >>
    /\ is_collision_b = is_collision_a
    /\ collision_found_a /\ collision_found_b

=============================================================================
